---- MODULE Spec2Model ----
(***************************************************************************)
(* The agentic tool-calling orchestrator of OpenCowork                     *)
(* (src-tauri/src/commands/mod.rs): chat_with_assistant, run_tool_loop,    *)
(* retry_with_cancel, the capability sandbox and the file / command tools. *)
(***************************************************************************)
EXTENDS Integers, Sequences, FiniteSets, TLC

(***************************************************************************)
(* Program constants (commands/mod.rs:48-54).                              *)
(***************************************************************************)
TOOL_MODE_UNSET_ERROR == "TOOLS_MODE_UNSET"
REQUEST_CANCELLED_ERROR == "REQUEST_CANCELLED"
TOOL_ERROR_PREFIX == "TOOL_ERROR:"
MAX_TOOL_LOOPS == 999
MAX_REPEAT_TOOL_LOOPS == 3
MODEL_MAX_RETRIES == 2
MODEL_MAX_CONTINUES == 1

(***************************************************************************)
(* Bounds of the model.                                                    *)
(***************************************************************************)
\* tool rounds the model client asks for in one request of SpecRequest
MaxRequestRounds == 1

VARIABLES
  \* ---- chat_with_assistant / run_tool_loop ----
  pc,               \* position of the request task
  site,             \* which model call is outstanding: first, cont, cont_trunc, followup
  phase,            \* run_tool_loop instance: main or followup
  provider,         \* config.model.provider: "api" or "ollama"
  mode,             \* access.mode: "unset", "whitelist", "allow_all"
  total_candidates, \* length of the list build_overflow_recovery_histories yields
                    \* for the history of the request (history_candidates.len())
  cand,             \* idx of the overflow-recovery candidate in use
  attempt,          \* retry_with_cancel: attempt
  result,           \* run_tool_loop: result (the model's latest response)
  loops,            \* run_tool_loop: loops
  last_tool_calls,  \* run_tool_loop: last_tool_calls (<<>> is None, <<s>> is Some(s))
  repeat_loops,     \* run_tool_loop: repeat_loops
  call_idx,         \* index of the call of the round being executed
  tool_results,     \* run_tool_loop: tool_results of the current round
  ret,              \* value run_tool_loop returned
  combined,         \* chat_with_assistant: the main loop's Ok response
  outcome,          \* what chat_with_assistant returned
  token_registered, \* request_cancellations holds the request's token
  cancelled,        \* CancellationToken::is_cancelled
  fg_running,       \* 1 while the child of a foreground Bash call is awaited
  orphans,          \* children still alive whose awaiting future was dropped, by cause
  bg_running,       \* detached background processes spawned (saturating count)
  effects,          \* kinds of side effects the dispatched tools performed
  \* ---- history variables (not program state) ----
  g_cancel_at,      \* where the request was when cancel_request was invoked
  g_streak,         \* latest consecutive rounds of that run that each had a failure
  g_sig,            \* the calls of the latest completed round
  g_run,            \* consecutive completed rounds with those same calls (saturating)
  g_prev_repeat,    \* repeat_loops before the latest completed round
  g_exec_rounds,    \* rounds of the current run_tool_loop whose calls were dispatched
  \* ---- one tool called on its own (the file and command tools) ----
  access,           \* the ToolAccess built by build_tool_access
  tool_args,        \* the arguments of the latest tool call
  tool_ret,         \* what the latest tool call returned
  file,             \* the bytes of the file the file tools work on (<<"missing">> if none)
  g_file_before,    \* history: file before the latest tool call
  g_written,        \* history: content of the latest overwriting Write, while the file is its
  g_wrote,          \* history: the latest tool call wrote the file
  \* ---- retry_with_cancel ----
  delay,            \* milliseconds of the backoff sleep in progress (0 if none)
  g_last_err,       \* history: the error the backoff sleep in progress follows
  g_tried,          \* history: how the first model call ended for each history
                    \* candidate tried so far, as records [cand, res]
  \* ---- the inputs of the first model call and what is sent ----
  history,          \* chat_with_assistant: history ({} is None, {h} is Some(h))
  system_prompt,    \* chat_with_assistant: system_prompt
  user_message,     \* chat_with_assistant: user_message
  storage,          \* config.storage: max_context_tokens, trigger ratio in percent
  messages,         \* the messages of the latest request to the model (<<>>: none yet)
  \* ---- the tool transcript ----
  collected_tool_context, \* run_tool_loop: collected_tool_context
  g_keep_context,   \* whether the specification follows the transcript (those
                    \* that run the loop up to MAX_TOOL_LOOPS rounds leave it empty)
  g_dispatched,     \* history: the calls handed to execute_tool_call in this loop,
                    \* in order (followed like the transcript)
  \* ---- the skill registry ----
  skills_dir,       \* the entries of SkillManager.skills_dir on disk
  skill_args,       \* the SkillManager operation called and its name argument
  skill_ret,        \* what the operation returned
  g_fs_calls,       \* history: file-system calls the operation made
  g_skills_before,  \* history: skills_dir before the operation
  \* ---- the cached list of available skills ----
  skills_version,   \* AppState.skills_version
  skills_cache,     \* AppState.skills_cache: initialized, loaded_version, skills
  requests,         \* per request on get_available_skills_cached: where it is,
                    \* its local version and list, and history fields (g_...)
  \* ---- the cancellation tokens of concurrent requests ----
  request_cancellations, \* AppState.request_cancellations: id -> token ({}: no entry)
  cancelled_tokens, \* the tokens on which cancel() was called
  chats,            \* per concurrent request: where it is, its request_id, the
                    \* token register_cancel_token gave it, and history fields
  g_missed,         \* history: requests between register and clear that a
                    \* cancel_request with their id did not reach
  \* ---- the search tools ----
  tree,             \* the files on disk, in the order a walk or a glob yields them
  \* ---- the timeout of a foreground command ----
  timer,            \* milliseconds the timeout around the awaited child was given
                    \* (0 while no child is awaited)
  \* ---- the tool loops of one request, nested ones included ----
  frames,           \* the run_tool_loop calls in progress, outermost first: each
                    \* with its own `loops` and the chain that started it
  g_total_rounds,   \* history: rounds of tool execution the request performed
  g_loops_run,      \* history: run_tool_loop calls the request made
  \* ---- the watcher of the skills directory ----
  clock,            \* Instant::now(), in milliseconds
  last_emit_at,     \* when the watcher last passed an event on
  g_event,          \* history: the latest file event, the counter's value when
                    \* it happened and whether the watcher passed it on
  \* ---- the capture manager ----
  is_running,       \* the flag the manager and every capture loop share
  stop_tx,          \* the sender of the latest loop's stop channel, if not taken
  capture_tasks,    \* the spawned capture loops, in order: where each one is
  stop_channels,    \* per spawned loop: messages waiting in its stop channel
  record_count,     \* frames analysed
  g_calls,         \* history: the calls of start() that spawned and of stop()
  g_deleted         \* history: the skill names deleted and not created since

ovars == <<pc, site, phase, provider, mode, total_candidates, cand, attempt, result,
           loops, last_tool_calls, repeat_loops, call_idx, tool_results, ret,
           combined, outcome, token_registered, cancelled, fg_running, orphans, bg_running,
           effects>>
ovars_but_cancelled ==
  <<pc, site, phase, provider, mode, total_candidates, cand, attempt, result,
    loops, last_tool_calls, repeat_loops, call_idx, tool_results, ret,
    combined, outcome, token_registered, fg_running, orphans, bg_running, effects>>
gvars == <<g_cancel_at, g_streak, g_sig, g_run, g_prev_repeat, g_exec_rounds>>
tvars == <<access, tool_args, tool_ret, file, g_file_before, g_written, g_wrote>>
rvars == <<delay, g_last_err, g_tried>>
hvars == <<history, system_prompt, user_message, storage, messages>>
cvars == <<collected_tool_context, g_keep_context, g_dispatched>>
qvars == <<request_cancellations, cancelled_tokens, chats, g_missed>>
wvars == <<clock, last_emit_at, g_event>>
mvars == <<is_running, stop_tx, capture_tasks, stop_channels, record_count, g_calls>>
dvars == <<g_deleted>>
nvars == <<frames, g_total_rounds, g_loops_run, wvars, mvars, dvars>>
fvars == <<tree, timer, nvars>>
avars == <<skills_version, skills_cache, requests, qvars, fvars>>
kvars == <<skills_dir, skill_args, skill_ret, g_fs_calls, g_skills_before, avars>>
vars == <<ovars, gvars, tvars, rvars, hvars, cvars, kvars>>

Modes == {"unset", "whitelist", "allow_all"}

(***************************************************************************)
(* Model responses (ChatWithToolsResult) and tool calls.                   *)
(***************************************************************************)
TextResp(inc) == [kind |-> "Text", incomplete |-> inc, calls |-> <<>>]
ToolResp(cs) == [kind |-> "ToolCalls", incomplete |-> FALSE, calls |-> cs]

Call(n, a) == [name |-> n, arguments |-> a]
ReadA == Call("Read", "{path:a}")
ReadB == Call("Read", "{path:b}")
WriteA == Call("Write", "{path:a,content:x}")
BashFg == Call("Bash", "{command:make}")
BashBg == Call("Bash", "{command:serve &}")
ManageCreate == Call("manage_skill", "{action:create,name:s,description:d,instructions:i}")
ProgressUpd == Call("progress_update", "{message:m}")
BadJson == Call("Read", "{path:")
\* calls whose arguments are JSON but not what the tool takes
ReadNoPath == Call("Read", "{max_bytes:1}")
ReadWrongType == Call("Read", "{path:a,max_bytes:x}")
ReadUnknownField == Call("Read", "{path:a,extra:1}")
ProgressNoMessage == Call("progress_update", "{detail:d}")
\* Bash calls the sandbox refuses under a whitelist: a command that is not in
\* the allowed list, a working directory outside the allowed directories
BashDenied == Call("Bash", "{command:rm}")
BashOutside == Call("Bash", "{command:make,cwd:/etc}")

\* the rounds the model client may ask for
LoopRounds == {<<ReadA>>, <<ReadB, ReadA>>, <<BashFg>>}
RequestRounds == {<<BashFg>>, <<WriteA, BashFg>>, <<ManageCreate>>, <<BashBg>>,
                  <<ProgressUpd>>, <<BadJson>>}
LoopResponses == {TextResp(FALSE)} \cup {ToolResp(cs) : cs \in LoopRounds}
RequestResponses == {TextResp(FALSE), TextResp(TRUE)} \cup {ToolResp(cs) : cs \in RequestRounds}

NoResult == TextResp(FALSE)
NoRet == [status |-> "none", what |-> "none", incomplete |-> FALSE]
\* mutant: the value returned does not carry the response it was made from
OkRet_Lossy(w, inc) == [status |-> "Ok", what |-> w, incomplete |-> FALSE]
OkRet(w, inc) == [status |-> "Ok", what |-> w, incomplete |-> inc]
ErrRet(e) == [status |-> "Err", what |-> e, incomplete |-> FALSE]

(***************************************************************************)
(* Tool outputs.  An output is the text a tool call produced; the model    *)
(* keeps its leading line, which is all is_tool_failure looks at.          *)
(***************************************************************************)
Plain(m) == [head |-> "plain", code |-> 0, msg |-> m]
ExitCode(c) == [head |-> "exit_code:", code |-> c, msg |-> "stdout/stderr"]
ToolError(e) == [head |-> TOOL_ERROR_PREFIX, code |-> 0, msg |-> e]

parse_exit_code(output) ==
  IF output.head = "exit_code:" THEN <<output.code>> ELSE <<>>

is_tool_failure(output) ==
  IF output.head = TOOL_ERROR_PREFIX THEN TRUE
  ELSE LET c == parse_exit_code(output) IN c # <<>> /\ c[1] # 0

has_failure(results) == \E i \in 1..Len(results) : is_tool_failure(results[i])

(***************************************************************************)
(* execute_tool_call: the set of results a call can produce under access   *)
(* mode m.  A result is Ok(out) or Err(err); effect is the side effect the *)
(* tool performed, spawn says whether a child process was started.         *)
(***************************************************************************)
Ok(o, eff) == [res |-> "Ok", out |-> o, err |-> "", effect |-> eff, spawn |-> "none"]
Err(e) == [res |-> "Err", out |-> Plain(""), err |-> e, effect |-> "none", spawn |-> "none"]
Spawn(kind) == [res |-> "Ok", out |-> Plain(""), err |-> "", effect |-> "command", spawn |-> kind]

read_file_tool_results(m) ==
  IF m = "unset" THEN {Err(TOOL_MODE_UNSET_ERROR)}
  ELSE {Ok(Plain("file text"), "none"), Err("read failed")}
       \cup (IF m = "whitelist" THEN {Err("path not allowed")} ELSE {})

write_file_tool_results(m) ==
  IF m = "unset" THEN {Err(TOOL_MODE_UNSET_ERROR)}
  ELSE {Ok(Plain("written"), "file"), Err("write failed")}
       \cup (IF m = "whitelist" THEN {Err("path not allowed")} ELSE {})

command_requests_background(call) == call = BashBg

run_command_tool_results(m, call) ==
  IF m = "unset" THEN {Err(TOOL_MODE_UNSET_ERROR)}
  ELSE IF m = "whitelist" /\ call = BashDenied
  THEN {Ok(Plain("command not in allowed list"), "none")}
  ELSE IF m = "whitelist" /\ call = BashOutside
  THEN {Ok(Plain("cwd not allowed"), "none")}
  ELSE (IF m = "whitelist"
        THEN {Ok(Plain("command not in allowed list"), "none"),
              Ok(Plain("cwd not allowed"), "none")}
        ELSE {})
       \cup (IF command_requests_background(call)
             THEN {Spawn("bg"), Err("start background command failed")}
             ELSE {Spawn("fg"), Err("spawn failed")})

manage_skill_results ==
  {Ok(Plain("skill created"), "skill"), Ok(Plain("create skill failed"), "none")}

JsonValid(call) == call # BadJson

\* serde_json::from_value into the tool's argument struct (lines 4031-4032 for
\* Read), and the required fields picked from the JSON value by hand (lines
\* 4191-4194 for progress_update): a required field is missing or a field has
\* the wrong type. The structs (lines 781-834) do not deny unknown fields,
\* which are skipped.
ArgsFit(call) == call \notin {ReadNoPath, ReadWrongType, ProgressNoMessage}

execute_tool_call(m, call) ==
  IF ~JsonValid(call) THEN {Err("parse tool arguments failed")}
  ELSE IF ~ArgsFit(call) THEN {Err("arguments error")}
  ELSE CASE call.name = "Read" -> read_file_tool_results(m)
         [] call.name = "Write" -> write_file_tool_results(m)
         [] call.name = "Bash" -> run_command_tool_results(m, call)
         [] call.name = "manage_skill" -> manage_skill_results
         [] call.name = "progress_update" -> {Ok(Plain("ok"), "none")}
         [] OTHER -> {Ok(Plain("unknown tool"), "none")}

(***************************************************************************)
(* run_tool_loop                                                           *)
(***************************************************************************)
Return(r) == pc' = "loop_ret" /\ ret' = r

\* mutant: a round without failure leaves the counter as it is
NextRepeatLoops_NoReset(is_repeat, has_fail, rl) ==
  IF is_repeat /\ has_fail THEN rl + 1 ELSE IF has_fail THEN 0 ELSE rl

\* mutant: the repeat cap trips one round late
RepeatCapReached_Late(rl) == rl > MAX_REPEAT_TOOL_LOOPS

\* mutant: the round cap trips one round late
RoundCapReached_Late(n) == n > MAX_TOOL_LOOPS

\* mutant: every tool error ends the loop
EndsRequest_Any(err) == TRUE

\* line 3878: the tool errors that run_tool_loop returns instead of recording
EndsRequest(err) == err \in {TOOL_MODE_UNSET_ERROR, REQUEST_CANCELLED_ERROR}

\* lines 3899-3903
NextRepeatLoops(is_repeat, has_fail, rl) ==
  IF is_repeat /\ has_fail THEN rl + 1 ELSE 0

\* lines 3906-3923: the repeat-failure cap
RepeatCapReached(rl) == rl >= MAX_REPEAT_TOOL_LOOPS

\* lines 3800-3817: the hard round cap
RoundCapReached(n) == n >= MAX_TOOL_LOOPS

\* the id of call number idx of the round-th response with tool calls: the ids
\* come from the model, which gives every call an id of its own
CallId(round, idx) == <<round, idx>>

\* lines 3820-3833: the assistant message of a round, with the ids of its calls
AssistantContext(round, calls) ==
  [role |-> "assistant", content |-> {}, tool_call_id |-> {},
   tool_calls |-> {[i \in 1..Len(calls) |-> CallId(round, i)]}]

\* mutant: every tool message carries the id of the first call of its round
ToolContext_FirstId(round, idx, output) ==
  [role |-> "tool", content |-> {output}, tool_call_id |-> {CallId(round, 1)},
   tool_calls |-> {}]

\* lines 3886-3893: the message of one tool result (its content is the output,
\* shortened by compact_tool_context_content)
ToolContext(round, idx, output) ==
  [role |-> "tool", content |-> {output}, tool_call_id |-> {CallId(round, idx)},
   tool_calls |-> {}]

\* the transcript after a push, where it is followed
Kept(ctx) == IF g_keep_context THEN ctx ELSE collected_tool_context

\* lines 3884-3948: one call's output is in; after the round's last call the
\* repeat-failure detector runs and the results go back to the model.
AfterOutput(output) ==
  /\ collected_tool_context' =
       Kept(Append(collected_tool_context, ToolContext(g_exec_rounds, call_idx, output)))
  /\ LET results == Append(tool_results, output)
         signature == result.calls
     IN IF call_idx < Len(result.calls)
        THEN /\ pc' = "exec"
             /\ call_idx' = call_idx + 1
             /\ tool_results' = results
             /\ UNCHANGED <<last_tool_calls, repeat_loops, ret, site, attempt,
                            g_streak, g_sig, g_run, g_prev_repeat>>
        ELSE LET hf == has_failure(results)
                 is_repeat == last_tool_calls = <<signature>>
                 rl == NextRepeatLoops(is_repeat, hf, repeat_loops)
             IN /\ tool_results' = results
                /\ call_idx' = call_idx
                /\ repeat_loops' = rl
                /\ last_tool_calls' = <<signature>>
                /\ g_prev_repeat' = repeat_loops
                /\ g_streak' = IF hf
                               THEN (IF g_sig = <<signature>> /\ g_streak > 0
                                     THEN g_streak + 1 ELSE 1)
                               ELSE 0
                /\ g_sig' = <<signature>>
                /\ g_run' = IF g_sig = <<signature>>
                            THEN (IF g_run <= MAX_REPEAT_TOOL_LOOPS THEN g_run + 1 ELSE g_run)
                            ELSE 1
                /\ IF RepeatCapReached(rl)
                   THEN Return(OkRet("repeat", FALSE)) /\ UNCHANGED <<site, attempt>>
                   ELSE pc' = "model" /\ site' = "cont" /\ attempt' = 0 /\ UNCHANGED ret

\* lines 3786-3833: top of the loop
LoopTop ==
  /\ UNCHANGED <<g_keep_context, g_dispatched>>
  /\ UNCHANGED rvars
  /\ UNCHANGED tvars
  /\ UNCHANGED hvars
  /\ UNCHANGED kvars
  /\ pc = "loop_top"
  /\ IF cancelled
     THEN Return(ErrRet(REQUEST_CANCELLED_ERROR))
          /\ UNCHANGED <<call_idx, tool_results, g_exec_rounds, collected_tool_context>>
     ELSE IF result.kind = "Text"
     THEN Return(OkRet("text", result.incomplete))
          /\ UNCHANGED <<call_idx, tool_results, g_exec_rounds, collected_tool_context>>
     ELSE IF RoundCapReached(loops)
     THEN Return(OkRet("cap", FALSE))
          /\ UNCHANGED <<call_idx, tool_results, g_exec_rounds, collected_tool_context>>
     ELSE /\ pc' = "exec"
          /\ call_idx' = 1
          /\ tool_results' = <<>>
          /\ g_exec_rounds' = g_exec_rounds + 1
          /\ collected_tool_context' =
               Kept(Append(collected_tool_context,
                           AssistantContext(g_exec_rounds + 1, result.calls)))
          /\ UNCHANGED ret
  /\ UNCHANGED <<site, phase, provider, mode, total_candidates, cand, attempt, result,
                 loops, last_tool_calls, repeat_loops, combined, outcome,
                 token_registered, cancelled, fg_running, orphans, bg_running, effects,
                 g_cancel_at, g_streak, g_sig, g_run, g_prev_repeat>>

\* lines 3841-3894 with execute_tool_call: dispatch of the next call of the round
ToolStart ==
  /\ UNCHANGED g_keep_context
  /\ g_dispatched' = IF ~cancelled /\ g_keep_context
                     THEN Append(g_dispatched, CallId(g_exec_rounds, call_idx))
                     ELSE g_dispatched
  /\ UNCHANGED rvars
  /\ UNCHANGED tvars
  /\ UNCHANGED hvars
  /\ UNCHANGED kvars
  /\ pc = "exec"
  /\ IF cancelled
     THEN /\ Return(ErrRet(REQUEST_CANCELLED_ERROR))
          /\ UNCHANGED <<call_idx, tool_results, last_tool_calls, repeat_loops, site,
                         attempt, g_streak, g_sig, g_run, g_prev_repeat, fg_running,
                         bg_running, effects, collected_tool_context>>
     ELSE \E o \in execute_tool_call(mode, result.calls[call_idx]) :
            IF o.res = "Err" /\ EndsRequest(o.err)
            THEN /\ Return(ErrRet(o.err))
                 /\ UNCHANGED <<call_idx, tool_results, last_tool_calls, repeat_loops,
                                site, attempt, g_streak, g_sig, g_run, g_prev_repeat,
                                fg_running, bg_running, effects, collected_tool_context>>
            ELSE IF o.spawn = "fg"
            THEN /\ pc' = "tool_run"
                 /\ fg_running' = 1
                 /\ effects' = effects \cup {"command"}
                 /\ UNCHANGED <<call_idx, tool_results, last_tool_calls, repeat_loops,
                                site, attempt, ret, g_streak, g_sig, g_run, g_prev_repeat,
                                bg_running, collected_tool_context>>
            ELSE /\ AfterOutput(IF o.res = "Ok"
                                THEN (IF o.spawn = "bg" THEN Plain("background task id")
                                      ELSE o.out)
                                ELSE ToolError(o.err))
                 /\ effects' = IF o.effect = "none" THEN effects
                               ELSE effects \cup {o.effect}
                 /\ bg_running' = IF o.spawn = "bg" /\ bg_running < 2 * MaxRequestRounds
                                  THEN bg_running + 1 ELSE bg_running
                 /\ UNCHANGED fg_running
  /\ UNCHANGED <<phase, provider, mode, total_candidates, cand, result, loops, combined,
                 outcome, token_registered, cancelled, orphans, g_cancel_at,
                 g_exec_rounds>>

\* run_command_tool lines 3530-3563 under await_with_cancel: the awaited child
\* exits, or the timeout fires and the future owning the child is dropped
\* (the Command is built without kill_on_drop, so the child lives on).
ToolFinish ==
  /\ UNCHANGED <<g_keep_context, g_dispatched>>
  /\ UNCHANGED rvars
  /\ UNCHANGED tvars
  /\ UNCHANGED hvars
  /\ UNCHANGED kvars
  /\ pc = "tool_run"
  /\ \E how \in {"exit0", "exit1", "timeout"} :
       /\ orphans' = IF how = "timeout" THEN orphans \cup {"timeout"} ELSE orphans
       /\ AfterOutput(CASE how = "exit0" -> ExitCode(0)
                        [] how = "exit1" -> ExitCode(1)
                        [] OTHER -> ToolError("command timed out"))
  /\ fg_running' = 0
  /\ UNCHANGED <<phase, provider, mode, total_candidates, cand, result, loops, combined,
                 outcome, token_registered, cancelled, bg_running, effects, g_cancel_at,
                 g_exec_rounds>>

\* await_with_cancel lines 454-462 around a running tool: the cancelled branch
\* of select! wins and the tool's future is dropped; its child is not killed.
ToolCancelled ==
  /\ UNCHANGED cvars
  /\ UNCHANGED rvars
  /\ UNCHANGED tvars
  /\ UNCHANGED hvars
  /\ UNCHANGED kvars
  /\ pc = "tool_run"
  /\ cancelled
  /\ Return(ErrRet(REQUEST_CANCELLED_ERROR))
  /\ fg_running' = 0
  /\ orphans' = orphans \cup {"cancelled"}
  /\ UNCHANGED <<site, phase, provider, mode, total_candidates, cand, attempt, result,
                 loops, last_tool_calls, repeat_loops, call_idx, tool_results, combined,
                 outcome, token_registered, cancelled, bg_running, effects, gvars>>

(***************************************************************************)
(* Model calls: retry_with_cancel around a model-client call, and what     *)
(* each call site does with the result.                                    *)
(***************************************************************************)
ErrKinds == {"transient", "overflow", "permanent"}
\* retry_with_cancel line 500: the sleep before retry number attempt lasts
\* BACKOFF_STEP_MS * attempt
BACKOFF_STEP_MS == 400
is_transient_model_error(k) == k = "transient"
is_context_overflow_error(k) == k = "overflow"

\* mutant: every error is retried
should_retry_model_error_Always(k) == TRUE

\* lines 464-469
should_retry_model_error(k) ==
  IF k \in {REQUEST_CANCELLED_ERROR, TOOL_MODE_UNSET_ERROR} THEN FALSE
  ELSE is_transient_model_error(k)

\* chat_with_assistant lines 1285-1286: the token is cleared, the result returned
Finish(o) ==
  /\ pc' = "done"
  /\ outcome' = o
  /\ token_registered' = FALSE

\* the request-level outcome of a value run_tool_loop (or a model call) returned
OutcomeOf(r) ==
  IF r.status = "Ok"
  THEN (IF r.what = "text" THEN "Done" ELSE "Aborted")
  ELSE IF r.what = REQUEST_CANCELLED_ERROR THEN "Cancelled"
  ELSE IF r.what = TOOL_MODE_UNSET_ERROR THEN "Unset"
  ELSE "ModelError"

\* lines 506-526, on the abstract response: only a text can look incomplete
response_looks_incomplete(r) == r.what = "text" /\ r.incomplete

\* mutant: every Ok value of the main loop gets a follow-up
FollowUpWanted_Always(r) == TRUE

\* lines 1036-1119: the main loop's Ok value either is final or gets one follow-up
FollowUpWanted(r) == MODEL_MAX_CONTINUES > 0 /\ response_looks_incomplete(r)

\* entry into run_tool_loop (lines 3779-3783)
EnterLoop(r, ph) ==
  /\ pc' = "loop_top"
  /\ phase' = ph
  /\ result' = r
  /\ loops' = 0
  /\ last_tool_calls' = <<>>
  /\ repeat_loops' = 0
  /\ call_idx' = 0
  /\ tool_results' = <<>>
  /\ collected_tool_context' = <<>>
  /\ g_dispatched' = <<>>
  /\ g_streak' = 0
  /\ g_sig' = <<>>
  /\ g_run' = 0
  /\ g_prev_repeat' = 0
  /\ g_exec_rounds' = 0

LoopLocals == <<result, loops, last_tool_calls, repeat_loops, call_idx, tool_results,
                g_streak, g_sig, g_run, g_prev_repeat, g_exec_rounds>>

\* the main phase ended with value r (lines 1036-1141, 1207-1280)
MainEnded(r) ==
  IF r.status = "Ok" /\ FollowUpWanted(r)
  THEN /\ pc' = "model"
       /\ site' = "followup"
       /\ attempt' = 0
       /\ combined' = r
       /\ UNCHANGED <<outcome, token_registered>>
  ELSE /\ Finish(OutcomeOf(r))
       /\ combined' = r
       /\ UNCHANGED <<site, attempt>>

\* lines 924-926: the request id gets its token
RegisterToken ==
  /\ UNCHANGED cvars
  /\ UNCHANGED rvars
  /\ UNCHANGED tvars
  /\ UNCHANGED hvars
  /\ UNCHANGED kvars
  /\ pc = "start"
  /\ pc' = "model"
  /\ site' = "first"
  /\ token_registered' = TRUE
  /\ cancelled' = FALSE
  /\ attempt' = 0
  /\ cand' = 0
  /\ UNCHANGED <<phase, provider, mode, total_candidates, result, loops, last_tool_calls,
                 repeat_loops, call_idx, tool_results, ret, combined, outcome,
                 fg_running, orphans, bg_running, effects, gvars>>

\* cancel_request lines 222-232
Cancel ==
  /\ UNCHANGED cvars
  /\ UNCHANGED rvars
  /\ UNCHANGED tvars
  /\ UNCHANGED hvars
  /\ UNCHANGED kvars
  /\ pc # "done"
  /\ g_cancel_at = "never"
  /\ g_cancel_at' = IF pc = "model" THEN site ELSE pc
  /\ cancelled' = IF token_registered THEN TRUE ELSE cancelled
  /\ UNCHANGED <<ovars_but_cancelled, g_streak, g_sig, g_run, g_prev_repeat, g_exec_rounds>>

\* history: retry_with_cancel returned res for the candidate in turn (lines 995-1013)
Tried(res) ==
  g_tried' = IF site = "first" THEN Append(g_tried, [cand |-> cand, res |-> res])
             ELSE g_tried

\* mutant: any failure moves on to the next candidate
can_retry_AnyError(idx, e) == provider = "api" /\ idx + 1 < total_candidates

\* line 1001; the candidate loop exists on the api branch only (line 934), the
\* other branch makes its one call with the compressed history (lines 1169-1205)
can_retry(idx, e) ==
  /\ provider = "api"
  /\ idx + 1 < total_candidates /\ is_context_overflow_error(e)

\* the responses the model client may give at this point: R, with tool rounds
\* only while fewer than bound rounds were asked for in this loop
AllowedResponses(R, bound) ==
  IF provider # "api" THEN {r \in R : r.kind = "Text"}
  ELSE IF site \in {"first", "followup"} THEN (IF bound > 0 THEN R ELSE {r \in R : r.kind = "Text"})
  ELSE IF loops + 1 < bound THEN R
  ELSE {r \in R : r.kind = "Text"}

ModelStatic == <<provider, mode, total_candidates, cancelled, fg_running, orphans,
                 bg_running, effects, g_cancel_at>>

\* await_with_cancel: the model call's branch of select! completes with Ok.
\* lines 995-999 and 1022 (first), 3949-3950 and 3998 (continue), 1091-1117 and
\* 1258-1267 (follow-up)
ModelOk(R, bound) ==
  /\ UNCHANGED g_keep_context
  /\ Tried("ok")
  /\ UNCHANGED <<delay, g_last_err>>
  /\ UNCHANGED tvars
  /\ UNCHANGED hvars
  /\ UNCHANGED kvars
  /\ pc = "model"
  /\ \E r \in AllowedResponses(R, bound) :
       IF site \in {"cont", "cont_trunc"}
       THEN /\ pc' = "loop_top"
            /\ result' = r
            /\ loops' = loops + 1
            /\ call_idx' = 0
            /\ tool_results' = <<>>
            /\ UNCHANGED <<site, phase, cand, attempt, last_tool_calls, repeat_loops,
                           ret, combined, outcome,
                           token_registered, g_streak, g_sig, g_run, g_prev_repeat,
                           g_exec_rounds, collected_tool_context,
                           g_dispatched>>
       ELSE IF provider = "api"
       THEN /\ EnterLoop(r, IF site = "first" THEN "main" ELSE "followup")
            /\ UNCHANGED <<site, cand, attempt, ret, combined, outcome, token_registered>>
       ELSE IF site = "first"
       THEN /\ MainEnded(OkRet("text", r.incomplete))
            /\ UNCHANGED <<phase, cand, ret, LoopLocals, collected_tool_context,
                           g_dispatched>>
       ELSE /\ Finish(OutcomeOf(combined))
            /\ UNCHANGED <<site, phase, cand, attempt, ret, combined, LoopLocals,
                           collected_tool_context,
                           g_dispatched>>
  /\ UNCHANGED ModelStatic

\* what a call site does with Err(e) from retry_with_cancel:
\* lines 1000-1013 (first), 3951-3996 (continue), 1091 and 1258 (follow-up)
SiteErr(e) ==
  CASE site = "first" ->
         IF can_retry(cand, e)
         THEN /\ cand' = cand + 1
              /\ attempt' = 0
              /\ UNCHANGED <<pc, site, ret, combined, outcome, token_registered>>
         ELSE /\ Finish(OutcomeOf(ErrRet(e)))
              /\ UNCHANGED <<site, cand, attempt, ret, combined>>
    [] site = "cont" ->
         IF is_context_overflow_error(e)
         THEN /\ site' = "cont_trunc"
              /\ attempt' = 0
              /\ UNCHANGED <<pc, cand, ret, combined, outcome, token_registered>>
         ELSE /\ Return(ErrRet(e))
              /\ UNCHANGED <<site, cand, attempt, combined, outcome, token_registered>>
    [] site = "cont_trunc" ->
         /\ Return(ErrRet(e))
         /\ UNCHANGED <<site, cand, attempt, combined, outcome, token_registered>>
    [] OTHER ->
         /\ Finish(OutcomeOf(combined))
         /\ UNCHANGED <<site, cand, attempt, ret, combined>>

\* await_with_cancel lines 458-460 with retry_with_cancel lines 487-489: the
\* cancelled branch of select! wins the model call
ModelCancelled ==
  /\ UNCHANGED cvars
  /\ Tried(REQUEST_CANCELLED_ERROR)
  /\ UNCHANGED <<delay, g_last_err>>
  /\ UNCHANGED tvars
  /\ UNCHANGED hvars
  /\ UNCHANGED kvars
  /\ pc = "model"
  /\ cancelled
  /\ SiteErr(REQUEST_CANCELLED_ERROR)
  /\ UNCHANGED <<phase, LoopLocals, ModelStatic>>

\* retry_with_cancel lines 486-501: the model call failed with an error of kind k
ModelErr ==
  /\ UNCHANGED cvars
  /\ UNCHANGED tvars
  /\ UNCHANGED hvars
  /\ UNCHANGED kvars
  /\ pc = "model"
  /\ \E k \in ErrKinds :
       LET a == attempt + 1
       IN IF a > MODEL_MAX_RETRIES \/ ~should_retry_model_error(k)
          THEN SiteErr(k) /\ Tried(k) /\ UNCHANGED <<delay, g_last_err>>
          ELSE /\ pc' = "backoff"
               /\ attempt' = a
               /\ delay' = BACKOFF_STEP_MS * a
               /\ g_last_err' = k
               /\ UNCHANGED g_tried
               /\ UNCHANGED <<site, cand, ret, combined, outcome, token_registered>>
  /\ UNCHANGED <<phase, LoopLocals, ModelStatic>>

\* mutant: a retry at the continue site runs the round's last call again
Retried_WithCall(s) == IF s \in {"cont", "cont_trunc"} THEN "exec" ELSE "model"

\* retry_with_cancel lines 482-484: what runs again is make_fut(), the model call alone
Retried(s) == "model"

\* retry_with_cancel line 500: the backoff sleep (not raced against the token) is over
Backoff ==
  /\ UNCHANGED cvars
  /\ UNCHANGED tvars
  /\ UNCHANGED hvars
  /\ UNCHANGED kvars
  /\ pc = "backoff"
  /\ pc' = Retried(site)
  /\ delay' = 0
  /\ g_last_err' = "none"
  /\ UNCHANGED g_tried
  /\ UNCHANGED <<site, phase, cand, attempt, ret, combined, outcome, token_registered,
                 LoopLocals, ModelStatic>>

\* chat_with_assistant lines 1036-1141: run_tool_loop has returned
AfterLoop ==
  /\ UNCHANGED cvars
  /\ UNCHANGED rvars
  /\ UNCHANGED tvars
  /\ UNCHANGED hvars
  /\ UNCHANGED kvars
  /\ pc = "loop_ret"
  /\ IF phase = "main"
     THEN MainEnded(ret)
     ELSE /\ Finish(OutcomeOf(combined))
          /\ UNCHANGED <<site, attempt, combined>>
  /\ UNCHANGED <<phase, cand, ret, LoopLocals, ModelStatic>>

\* the request is in its follow-up stage: the "continue" call is in flight, or
\* its answer is being worked on or has ended the request
InFollowUp == site = "followup" \/ phase = "followup"

\* C26: a step issues the follow-up only from the main stage and only for an Ok
\* text of the main stage that looks truncated; a request in its follow-up
\* stage stays there, and when the follow-up's own result comes back, however
\* it looks, the next step of the request ends it.
C26_OneFollowUp ==
  [][/\ (~InFollowUp /\ InFollowUp') =>
          /\ phase = "main" /\ site' = "followup" /\ pc' = "model"
          /\ combined'.status = "Ok" /\ combined'.what = "text" /\ combined'.incomplete
     /\ InFollowUp => InFollowUp'
     /\ (InFollowUp /\ pc = "loop_ret" /\ pc' # pc) => (pc' = "done" /\ combined' = combined)
     /\ (InFollowUp /\ pc = "model" /\ site = "followup" /\ pc' # "model") =>
          pc' \in {"backoff", "loop_top", "loop_ret", "done"}]_vars

\* the follow-up's own text looked truncated and the request ended with it
C26_Witness ==
  /\ pc = "done" /\ phase = "followup" /\ outcome = "Done"
  /\ ret = OkRet("text", TRUE)
  /\ combined = OkRet("text", TRUE)

(***************************************************************************)
(* Specifications.                                                         *)
(***************************************************************************)
NoAccess == [mode |-> "unset", allowed_commands |-> <<>>, allowed_dirs |-> <<>>,
             base_dir |-> [abs |-> TRUE, comps |-> <<>>]]
NoArgs == [tool |-> "none"]
NoToolRet == [res |-> "none"]
NoFile == <<"missing">>
\* a text is known by where it comes from and by its number of characters
NoText == [src |-> "none", len |-> 0]
NoTree == <<>>

NoEvent == [kind |-> "none"]

\* No tool loop in progress and none run yet; the watcher as
\* start_skills_watcher leaves it (skills/mod.rs line 474), last_emit_at five
\* seconds in the past; the capture manager as CaptureManager::new leaves it
\* (capture/mod.rs lines 28-37).
InitRest ==
  /\ frames = <<>>
  /\ g_total_rounds = 0
  /\ g_loops_run = 0
  /\ clock = 5000
  /\ last_emit_at = 0
  /\ g_event = NoEvent
  /\ is_running = FALSE
  /\ stop_tx = {}
  /\ capture_tasks = <<>>
  /\ stop_channels = <<>>
  /\ record_count = 0
  /\ g_calls = <<>>
  /\ g_deleted = {}

NoStorage == [max_context_tokens |-> 0, ratio_pct |-> 0]

\* no tool is called on its own
InitNoTool ==
  /\ access = NoAccess
  /\ tool_args = NoArgs
  /\ tool_ret = NoToolRet
  /\ file = NoFile
  /\ g_file_before = NoFile
  /\ g_written = NoFile
  /\ g_wrote = FALSE
  /\ tree = NoTree
  /\ timer = 0
  /\ InitRest

NoSkillArgs == [op |-> "none"]
NoSkillRet == [res |-> "none"]

MaxRequests == 2
Requests == 1..MaxRequests

\* a list of skills as a scan returned it; g_scan_version is the value the
\* version counter had when the scan started
SkillList(skills, at) == [skills |-> skills, g_scan_version |-> at]

\* SkillsSnapshotCache::default() (commands/mod.rs lines 40-45)
DefaultCache == [initialized |-> FALSE, loaded_version |-> 0, skills |-> SkillList({}, 0)]

IdleRequest ==
  [pc |-> "idle", version |-> 0, list |-> SkillList({}, 0),
   g_checked |-> DefaultCache, g_counter_at_check |-> 0]

MaxChats == 2
Chats == 1..MaxChats
RequestIds == {"req-1", "req-2"}

\* a request that has not entered its command; token 0 is no token
IdleChat == [pc |-> "idle", request_id |-> "none", token |-> 0, g_peer_ended |-> FALSE]

\* AppState::new (commands/mod.rs lines 69-78), no request under way
InitNoCache ==
  /\ skills_version = 1
  /\ skills_cache = DefaultCache
  /\ requests = [r \in Requests |-> IdleRequest]
  /\ request_cancellations = [id \in RequestIds |-> {}]
  /\ cancelled_tokens = {}
  /\ chats = [r \in Chats |-> IdleChat]
  /\ g_missed = {}

\* no skill operation is called
InitNoSkills ==
  /\ skills_dir = {}
  /\ skill_args = NoSkillArgs
  /\ skill_ret = NoSkillRet
  /\ g_fs_calls = 0
  /\ g_skills_before = {}
  /\ InitNoCache

\* no request text is being prepared
InitNoHistory ==
  /\ history = {}
  /\ system_prompt = NoText
  /\ user_message = NoText
  /\ storage = NoStorage
  /\ messages = <<>>

InitCommon ==
  /\ delay = 0
  /\ g_last_err = "none"
  /\ g_tried = <<>>
  /\ collected_tool_context = <<>>
  /\ g_dispatched = <<>>
  /\ site = "first"
  /\ phase = "main"
  /\ cand = 0
  /\ attempt = 0
  /\ loops = 0
  /\ last_tool_calls = <<>>
  /\ repeat_loops = 0
  /\ call_idx = 0
  /\ tool_results = <<>>
  /\ ret = NoRet
  /\ combined = NoRet
  /\ outcome = "none"
  /\ cancelled = FALSE
  /\ fg_running = 0
  /\ orphans = {}
  /\ bg_running = 0
  /\ effects = {}
  /\ g_cancel_at = "never"
  /\ g_streak = 0
  /\ g_sig = <<>>
  /\ g_run = 0
  /\ g_prev_repeat = 0
  /\ g_exec_rounds = 0

\* run_tool_loop alone, from its entry with the first model response, while
\* nobody cancels and every model call is answered: the loop runs up to its
\* hard cap.
InitLoop ==
  /\ InitCommon
  /\ InitNoSkills
  /\ g_keep_context = FALSE
  /\ InitNoHistory
  /\ InitNoTool
  /\ pc = "loop_top"
  /\ provider = "api"
  /\ mode \in Modes
  /\ total_candidates = 1
  /\ token_registered = TRUE
  /\ result \in LoopResponses

NextLoop ==
  \/ LoopTop
  \/ ToolStart
  \/ ToolFinish
  \/ ModelOk(LoopResponses, MAX_TOOL_LOOPS + 1)

SpecLoop == InitLoop /\ [][NextLoop]_vars

\* a whole chat_with_assistant request, with cancel_request racing it; the
\* model client asks for at most MaxRequestRounds tool rounds per loop.
InitRequest ==
  /\ InitCommon
  /\ InitNoSkills
  /\ g_keep_context = FALSE
  /\ InitNoHistory
  /\ InitNoTool
  /\ pc = "start"
  /\ provider \in {"api", "ollama"}
  /\ mode \in Modes
  /\ total_candidates \in {1, 3}
  /\ token_registered = FALSE
  /\ result = NoResult

NextRequest ==
  \/ RegisterToken
  \/ Cancel
  \/ LoopTop
  \/ ToolStart
  \/ ToolFinish
  \/ ToolCancelled
  \/ ModelOk(RequestResponses, MaxRequestRounds)
  \/ ModelCancelled
  \/ ModelErr
  \/ Backoff
  \/ AfterLoop

SpecRequest == InitRequest /\ [][NextRequest]_vars

(***************************************************************************)
(* Claims about run_tool_loop (SpecLoop).                                  *)
(***************************************************************************)
LoopEndedOnToolCalls == pc = "loop_ret" /\ ret.what # "text"

\* C1 (as stated): whenever the loop has stopped after tool-call responses
\* only, it has stopped in Aborted by the hard cap after exactly
\* MAX_TOOL_LOOPS executed rounds.
C1_StopsExactlyAtCap ==
  LoopEndedOnToolCalls =>
    (ret = OkRet("cap", FALSE) /\ g_exec_rounds = MAX_TOOL_LOOPS)

\* C1 (amended): the loop never dispatches the calls of more than
\* MAX_TOOL_LOOPS rounds; when it stops after tool-call responses only, it was
\* stopped either by the repeat-failure detector or by TOOLS_MODE_UNSET, or it
\* stops in Aborted by the hard cap after exactly MAX_TOOL_LOOPS rounds.
C1_NeverBeyondCap ==
  /\ g_exec_rounds <= MAX_TOOL_LOOPS
  /\ LoopEndedOnToolCalls =>
       \/ ret = OkRet("cap", FALSE) /\ g_exec_rounds = MAX_TOOL_LOOPS
                                    /\ loops = MAX_TOOL_LOOPS
       \/ ret = OkRet("repeat", FALSE) /\ g_exec_rounds <= MAX_TOOL_LOOPS
       \/ ret = ErrRet(TOOL_MODE_UNSET_ERROR)

C1_Witness ==
  pc = "loop_ret" /\ ret = OkRet("cap", FALSE) /\ g_exec_rounds = MAX_TOOL_LOOPS

\* C2 (as stated): once three consecutive rounds with identical calls have
\* each reported a failure, the loop has ended in Aborted.
C2_AbortAfterThree ==
  g_streak >= MAX_REPEAT_TOOL_LOOPS => (pc = "loop_ret" /\ ret = OkRet("repeat", FALSE))

RepeatAborted == pc = "loop_ret" /\ ret = OkRet("repeat", FALSE)

\* C2 (amended): the loop ends in Aborted by the repeat-failure detector
\* exactly when the latest MAX_REPEAT_TOOL_LOOPS = 3 rounds each reported a
\* failure and each repeated the calls of the round before it, that is at the
\* fourth consecutive round with identical calls at the earliest; a run of
\* identical failing rounds is never longer than four, so a fifth attempt is
\* never executed.
C2_AbortAfterThreeRepeats ==
  /\ RepeatAborted <=>
       (g_streak >= MAX_REPEAT_TOOL_LOOPS /\ g_run >= MAX_REPEAT_TOOL_LOOPS + 1)
  /\ g_streak <= MAX_REPEAT_TOOL_LOOPS + 1

C2_Witness ==
  RepeatAborted /\ g_streak = MAX_REPEAT_TOOL_LOOPS + 1 /\ g_exec_rounds = g_streak

Min(a, b) == IF a <= b THEN a ELSE b

\* C3: after a round without failure the repeat counter is zero, and the
\* counter never exceeds the number of failing rounds since the latest round
\* without failure: failing rounds on either side of a successful round are
\* never added up.
C3_SuccessResetsCounter ==
  /\ g_streak = 0 => repeat_loops = 0
  /\ repeat_loops <= g_streak
  /\ g_run > 0 => repeat_loops = Min(Min(g_streak, g_run - 1), MAX_REPEAT_TOOL_LOOPS)

C3_Witness ==
  /\ pc = "model"
  /\ g_streak = 0
  /\ g_prev_repeat > 0
  /\ repeat_loops = 0
  /\ ~has_failure(tool_results)

(***************************************************************************)
(* Claims about a whole request (SpecRequest).                             *)
(***************************************************************************)
SuspensionPoints == {"start", "first", "cont", "cont_trunc", "followup", "tool_run",
                     "backoff"}

\* C4: a request during which cancel_request was invoked - before its first
\* model call, during a model call, a tool execution, a backoff sleep or the
\* follow-up - ends as Cancelled.
C4_CancelAlwaysWins ==
  (pc = "done" /\ g_cancel_at \in SuspensionPoints) => outcome = "Cancelled"

\* C5: when a request has ended as Cancelled, no child process started by a
\* foreground Bash call is still running.
C5_NothingLeftRunning ==
  (pc = "done" /\ outcome = "Cancelled") => orphans = {}

\* C7: under mode unset no dispatched tool performs a side effect and no tool
\* round ever completes with results for the model: the first dispatched call
\* ends the request with TOOLS_MODE_UNSET.
C7_UnsetAuthorizesNothing ==
  mode = "unset" =>
    /\ effects = {}
    /\ last_tool_calls = <<>>
    /\ (pc = "done" /\ g_exec_rounds > 0 /\ g_cancel_at = "never") => outcome = "Unset"

(***************************************************************************)
(* The capability sandbox: paths.  A path string is its absolute flag and  *)
(* the texts between its separators ("" for a doubled or trailing          *)
(* separator); a PathBuf that went through normalize_path has only names.  *)
(***************************************************************************)
\* longest path argument, in components
MaxPathLen == 3
\* longest config.tools.allowed_dirs
MaxDirs == 2

PathStr(a, cs) == [abs |-> a, comps |-> cs]
BlankStr == PathStr(FALSE, <<>>)

\* PathBuf::pop: drops the last name; the root and the empty path have no parent
pop(buf) == IF buf = <<>> THEN buf ELSE SubSeq(buf, 1, Len(buf) - 1)

\* mutant: ParentDir is skipped like CurDir
RECURSIVE normalize_comps_NoPop(_, _)
normalize_comps_NoPop(comps, buf) ==
  IF comps = <<>> THEN buf
  ELSE LET comp == Head(comps)
       IN normalize_comps_NoPop(Tail(comps),
            IF comp \in {"", ".", ".."} THEN buf ELSE Append(buf, comp))

\* lines 2906-2916: the loop over path.components(); components() itself
\* yields nothing for "" and for an inner "."
RECURSIVE normalize_comps(_, _)
normalize_comps(comps, buf) ==
  IF comps = <<>> THEN buf
  ELSE LET comp == Head(comps)
       IN normalize_comps(Tail(comps),
            CASE comp \in {"", "."} -> buf
              [] comp = ".." -> pop(buf)
              [] OTHER -> Append(buf, comp))

normalize_path(path) == PathStr(path.abs, normalize_comps(path.comps, <<>>))

\* PathBuf::join: an absolute argument replaces the base
join(base, raw) == IF raw.abs THEN raw ELSE PathStr(base.abs, base.comps \o raw.comps)

\* Path::starts_with: whole components
starts_with(path, dir) ==
  /\ path.abs = dir.abs
  /\ Len(dir.comps) <= Len(path.comps)
  /\ SubSeq(path.comps, 1, Len(dir.comps)) = dir.comps

\* str::trim then to_lowercase, on the mode texts of RawModes
TrimLower(text) == IF text = " WhiteList " THEN "whitelist" ELSE text

normalize_tool_mode(text) ==
  LET m == TrimLower(text)
  IN IF m \in {"whitelist", "allow_all", "unset"} THEN m ELSE "unset"

RECURSIVE resolve_allowed_dirs(_, _)
resolve_allowed_dirs(dirs, data_dir) ==
  IF dirs = <<>> THEN <<>>
  ELSE LET raw == Head(dirs)
           rest == resolve_allowed_dirs(Tail(dirs), data_dir)
       IN IF raw = BlankStr THEN rest
          ELSE <<normalize_path(join(data_dir, raw))>> \o rest

build_tool_access(config, data_dir, preferred_base_dir) ==
  LET m == normalize_tool_mode(config.mode)
      listed == resolve_allowed_dirs(config.allowed_dirs, data_dir)
      allowed == IF listed = <<>> THEN <<normalize_path(data_dir)>> ELSE listed
      default_base_dir == allowed[1]
      base == IF preferred_base_dir = <<>> THEN default_base_dir
              ELSE LET preferred == normalize_path(preferred_base_dir[1])
                   IN IF m = "allow_all"
                         \/ \E i \in 1..Len(allowed) : starts_with(preferred, allowed[i])
                      THEN preferred ELSE default_base_dir
  IN [mode |-> m, allowed_commands |-> config.allowed_commands,
      allowed_dirs |-> allowed, base_dir |-> base]

resolve_path(acc, path) == normalize_path(join(acc.base_dir, path))

path_is_allowed(acc, path) ==
  IF acc.mode = "allow_all" THEN TRUE
  ELSE LET normalized == normalize_path(path)
       IN \E i \in 1..Len(acc.allowed_dirs) : starts_with(normalized, acc.allowed_dirs[i])

PathOk(path) == [res |-> "Ok", path |-> path]
ToolErr(e) == [res |-> "Err", err |-> e]
ToolOk(text) == [res |-> "Ok", text |-> text]

ensure_path_allowed(acc, path) ==
  LET resolved == resolve_path(acc, path)
  IN IF acc.mode = "whitelist" /\ ~path_is_allowed(acc, resolved)
     THEN ToolErr("path not allowed")
     ELSE PathOk(resolved)

(***************************************************************************)
(* The file tools.  A file holds bytes: "a" and "b" are one-byte           *)
(* characters, "L" "T" are the two bytes of the character "é"; a String is *)
(* a sequence of characters, "�" being the replacement character.     *)
(***************************************************************************)
DEFAULT_MAX_READ_BYTES == 200000

\* str::as_bytes
RECURSIVE as_bytes(_)
as_bytes(text) ==
  IF text = <<>> THEN <<>>
  ELSE (CASE Head(text) = "é" -> <<"L", "T">>
          [] Head(text) = "�" -> <<"EF", "BF", "BD">>
          [] OTHER -> <<Head(text)>>) \o as_bytes(Tail(text))

\* String::from_utf8_lossy: every byte that is not part of a well-formed
\* character becomes one replacement character
RECURSIVE from_utf8_lossy(_)
from_utf8_lossy(bytes) ==
  IF bytes = <<>> THEN <<>>
  ELSE IF Head(bytes) = "L"
  THEN (IF Len(bytes) >= 2 /\ bytes[2] = "T"
        THEN <<"é">> \o from_utf8_lossy(SubSeq(bytes, 3, Len(bytes)))
        ELSE <<"�">> \o from_utf8_lossy(Tail(bytes)))
  ELSE IF Head(bytes) = "T" THEN <<"�">> \o from_utf8_lossy(Tail(bytes))
  ELSE <<Head(bytes)>> \o from_utf8_lossy(Tail(bytes))

\* mutant: content of exactly max_bytes counts as truncated
truncated_AtOrAbove(len, max_bytes) == len >= max_bytes

\* line 3282
truncated(len, max_bytes) == len > max_bytes

\* the text Read returns: the decoded text, and n when the text ends with
\* the marker "\n\n[truncated n bytes]"
ReadOk(text, marker) == [res |-> "Ok", text |-> text, marker |-> marker]

read_file_tool(acc, args, data) ==
  IF acc.mode = "unset" THEN ToolErr(TOOL_MODE_UNSET_ERROR)
  ELSE LET allowed == ensure_path_allowed(acc, args.path)
       IN IF allowed.res = "Err" THEN allowed
          ELSE IF data = NoFile THEN ToolErr("read failed")
          ELSE LET max_bytes == IF args.max_bytes = <<>> THEN DEFAULT_MAX_READ_BYTES
                                ELSE args.max_bytes[1]
                   cut == truncated(Len(data), max_bytes)
                   slice == IF cut THEN SubSeq(data, 1, max_bytes) ELSE data
               IN ReadOk(from_utf8_lossy(slice),
                         IF cut THEN <<Len(data) - max_bytes>> ELSE <<>>)

\* the Read tool is called with a path of Paths and a max_bytes of Maxes
ReadFile(Paths, Maxes) ==
  /\ UNCHANGED cvars
  /\ UNCHANGED hvars
  /\ UNCHANGED kvars
  /\ UNCHANGED rvars
  /\ \E path \in Paths, mb \in Maxes :
       LET args == [tool |-> "Read", path |-> path, max_bytes |-> mb]
       IN /\ tool_args' = args
          /\ tool_ret' = read_file_tool(access, args, file)
  /\ g_file_before' = file
  /\ g_wrote' = FALSE
  /\ UNCHANGED <<access, file, g_written, ovars, gvars>>

(***************************************************************************)
(* Path authorization of a file tool, for every policy build_tool_access   *)
(* can build and every path argument.                                      *)
(***************************************************************************)
RECURSIVE SeqsUpTo(_, _)
SeqsUpTo(S, n) ==
  IF n = 0 THEN {<<>>}
  ELSE LET shorter == SeqsUpTo(S, n - 1)
       IN shorter \cup {Append(q, x) : q \in {r \in shorter : Len(r) = n - 1}, x \in S}

RawModes == {"whitelist", "allow_all", "unset", " WhiteList ", "full"}
DirEntries == {PathStr(TRUE, <<"a">>), PathStr(TRUE, <<"a", "b">>), PathStr(FALSE, <<"b">>),
               PathStr(TRUE, <<"a", "..", "b">>), BlankStr}
DataDir == PathStr(TRUE, <<"d">>)
PreferredDirs == {<<>>, <<PathStr(TRUE, <<"a", "b">>)>>}
PathArgs == {PathStr(a, cs) : a \in BOOLEAN, cs \in SeqsUpTo({"a", "b", ".", "..", ""}, MaxPathLen)}

InitPath ==
  /\ InitCommon
  /\ InitNoSkills
  /\ g_keep_context = FALSE
  /\ InitNoHistory
  /\ pc = "tool"
  /\ provider = "api"
  /\ mode = "unset"
  /\ total_candidates = 1
  /\ token_registered = FALSE
  /\ result = NoResult
  /\ \E m \in RawModes, dirs \in SeqsUpTo(DirEntries, MaxDirs), pref \in PreferredDirs :
       access = build_tool_access([mode |-> m, allowed_dirs |-> dirs,
                                   allowed_commands |-> <<>>], DataDir, pref)
  /\ tool_args = NoArgs
  /\ tool_ret = NoToolRet
  /\ file \in {NoFile, <<"a">>}
  /\ g_file_before = NoFile
  /\ g_written = NoFile
  /\ g_wrote = FALSE
  /\ tree = NoTree
  /\ timer = 0
  /\ InitRest

\* one call per policy
NextPath == tool_ret = NoToolRet /\ ReadFile(PathArgs, {<<>>})

SpecPath == InitPath /\ [][NextPath]_vars

\* lexical normal form of an absolute path, by rewriting: "" and "." are
\* dropped, a name followed by ".." is dropped with it, ".." at the root is
\* dropped
Least(I) == CHOOSE i \in I : \A j \in I : i <= j
Greatest(I) == CHOOSE i \in I : \A j \in I : j <= i

RECURSIVE LexNormal(_)
LexNormal(cs) ==
  LET dots == {i \in 1..Len(cs) : cs[i] \in {"", "."}}
      ups == {i \in 1..(Len(cs) - 1) : cs[i] # ".." /\ cs[i + 1] = ".."}
      Without(I) == LET keep == {i \in 1..Len(cs) : i \notin I}
                        RECURSIVE Pick(_)
                        Pick(k) == IF k > Len(cs) THEN <<>>
                                   ELSE (IF k \in keep THEN <<cs[k]>> ELSE <<>>) \o Pick(k + 1)
                    IN Pick(1)
  IN IF dots # {} THEN LexNormal(Without({Least(dots)}))
     ELSE IF ups # {} THEN LexNormal(Without({Least(ups), Least(ups) + 1}))
     ELSE IF cs # <<>> /\ cs[1] = ".." THEN LexNormal(Tail(cs))
     ELSE cs

IsPrefix(d, q) == Len(d) <= Len(q) /\ \A i \in 1..Len(d) : q[i] = d[i]

PathDenied == tool_ret.res = "Err" /\ tool_ret.err = "path not allowed"
PolicyUnconfigured == tool_ret.res = "Err" /\ tool_ret.err = TOOL_MODE_UNSET_ERROR

\* C6: a file tool called with path p under whitelist gets past the path
\* check if and only if p, taken from the base directory when relative and
\* lexically normalized, has an entry of allowed_dirs as a prefix of whole
\* components; under allow_all no path is refused; under unset the tool
\* fails with TOOLS_MODE_UNSET whatever the path.
C6_PathAuthorizedIffUnderAllowedDir ==
  tool_args.tool = "Read" =>
    LET p == tool_args.path
        target == LexNormal(IF p.abs THEN p.comps ELSE access.base_dir.comps \o p.comps)
    IN /\ access.mode = "whitelist" =>
            /\ ~PolicyUnconfigured
            /\ ~PathDenied <=>
                 \E i \in 1..Len(access.allowed_dirs) :
                    IsPrefix(access.allowed_dirs[i].comps, target)
       /\ access.mode = "allow_all" => ~PathDenied /\ ~PolicyUnconfigured
       /\ access.mode = "unset" => PolicyUnconfigured
       /\ access.mode \in Modes

\* a path that begins with an allowed directory, climbs out of it with ".."
\* and is refused
C6_Witness ==
  /\ tool_args.tool = "Read"
  /\ access.mode = "whitelist"
  /\ PathDenied
  /\ tool_args.path.abs
  /\ \E i \in 1..Len(tool_args.path.comps) : tool_args.path.comps[i] = ".."
  /\ \E i \in 1..Len(access.allowed_dirs) : starts_with(tool_args.path, access.allowed_dirs[i])

(***************************************************************************)
(* The capability sandbox: commands.  A command line and an                *)
(* allowed_commands entry are sequences of characters: "g" a lower-case    *)
(* letter, "G" its upper-case form, "/" the path separator, " " white      *)
(* space, "q" the double quote, "*" and "?" the glob wildcards.            *)
(***************************************************************************)
\* longest command line, in characters
MaxCmdLen == 4
\* longest config.tools.allowed_commands
MaxCmds == 1

\* mutant: no lower-casing
to_lowercase_Keep(text) == text

\* str::to_lowercase
to_lowercase(text) ==
  [i \in 1..Len(text) |-> CASE text[i] = "G" -> "g"
                            [] text[i] = "Agent-Browser" -> "agent-browser"
                            [] text[i] = "Read" -> "read"
                            [] text[i] = "Write" -> "write"
                            [] text[i] = "Edit" -> "edit"
                            [] text[i] = "Update" -> "update"
                            [] text[i] = "Glob" -> "glob"
                            [] text[i] = "Grep" -> "grep"
                            [] text[i] = "Bash" -> "bash"
                            [] OTHER -> text[i]]

\* char::is_whitespace, for the characters the model's texts are made of
is_whitespace(ch) == ch \in {" ", "\t", "\n", "\r"}

RECURSIVE trim_start(_)
trim_start(text) ==
  IF text # <<>> /\ is_whitespace(Head(text)) THEN trim_start(Tail(text)) ELSE text

RECURSIVE trim_end(_)
trim_end(text) ==
  IF text # <<>> /\ is_whitespace(text[Len(text)])
  THEN trim_end(SubSeq(text, 1, Len(text) - 1))
  ELSE text

trim(text) == trim_end(trim_start(text))

\* str::find of one character: <<>> is None, <<k>> the 0-based offset
RECURSIVE find(_, _)
find(text, ch) ==
  IF text = <<>> THEN <<>>
  ELSE IF Head(text) = ch THEN <<0>>
  ELSE LET r == find(Tail(text), ch) IN IF r = <<>> THEN <<>> ELSE <<r[1] + 1>>

\* split_whitespace().next().unwrap_or(""): the first word
RECURSIVE first_word(_)
first_word(text) ==
  IF text = <<>> \/ Head(text) = " " THEN <<>>
  ELSE <<Head(text)>> \o first_word(Tail(text))

\* lines 3174-3182
extract_command_token(command) ==
  LET trimmed == trim_start(command)
      end == IF trimmed # <<>> /\ Head(trimmed) = "q" THEN find(Tail(trimmed), "q") ELSE <<>>
  IN IF end # <<>> THEN SubSeq(trimmed, 2, end[1] + 1)
     ELSE first_word(trimmed)

\* Path::file_name: the last non-empty component, <<>> (None) if there is none;
\* a returned name is wrapped so that it differs from None
RECURSIVE file_name(_)
file_name(text) ==
  IF text = <<>> THEN <<>>
  ELSE IF text[Len(text)] = "/" THEN file_name(SubSeq(text, 1, Len(text) - 1))
  ELSE LET cut == find(text, "/")
       IN IF cut = <<>> THEN <<text>>
          ELSE file_name(SubSeq(text, cut[1] + 2, Len(text)))

\* glob::Pattern::matches with the default options: "?" is any one
\* character, "*" any run of characters, separators included
RECURSIVE glob_matches(_, _)
glob_matches(pattern, text) ==
  IF pattern = <<>> THEN text = <<>>
  ELSE IF Head(pattern) = "*"
  THEN \E k \in 0..Len(text) : glob_matches(Tail(pattern), SubSeq(text, k + 1, Len(text)))
  ELSE /\ text # <<>>
       /\ Head(pattern) = "?" \/ Head(pattern) = Head(text)
       /\ glob_matches(Tail(pattern), Tail(text))

contains(text, ch) == \E i \in 1..Len(text) : text[i] = ch

\* lines 3184-3216
command_allowed(acc, command) ==
  IF acc.mode = "allow_all" THEN TRUE
  ELSE LET token == extract_command_token(command)
           token_lower == to_lowercase(token)
           name == file_name(token)
           base_lower == to_lowercase(IF name = <<>> THEN token ELSE name[1])
       IN \E i \in 1..Len(acc.allowed_commands) :
            LET trimmed == trim(acc.allowed_commands[i])
                pattern == to_lowercase(trimmed)
            IN /\ trimmed # <<>>
               /\ \/ trimmed = <<"*">>
                  \/ IF contains(pattern, "*") \/ contains(pattern, "?")
                     THEN glob_matches(pattern, token_lower)
                          \/ glob_matches(pattern, base_lower)
                     ELSE pattern = token_lower \/ pattern = base_lower

\* what a Bash call returns; started says whether a shell was spawned for
\* the command
CmdRet(r, t, st) == [res |-> r, text |-> t, err |-> IF r = "Err" THEN t ELSE "",
                     started |-> st]

\* lines 3479-3564: the results run_command_tool can return
run_command_tool(acc, args) ==
  IF acc.mode = "unset" THEN {CmdRet("Err", TOOL_MODE_UNSET_ERROR, FALSE)}
  ELSE IF acc.mode = "whitelist" /\ ~command_allowed(acc, args.command)
  THEN {CmdRet("Ok", "command not in allowed list", FALSE)}
  ELSE LET cwd == IF args.cwd = <<>> THEN acc.base_dir ELSE resolve_path(acc, args.cwd[1])
       IN IF acc.mode = "whitelist" /\ ~path_is_allowed(acc, cwd)
          THEN {CmdRet("Ok", "cwd not allowed", FALSE)}
          ELSE {CmdRet("Ok", "exit_code: ...", TRUE), CmdRet("Err", "command timed out", TRUE),
                CmdRet("Err", "spawn failed", FALSE)}

\* run_tool_loop lines 3875-3883: what becomes of a tool's return value
Disposition(r) ==
  IF r.res = "Ok" THEN "tool_result"
  ELSE IF EndsRequest(r.err) THEN "request_error"
  ELSE "tool_error_result"

\* the Bash tool is called with a command of Commands and a cwd of Cwds
RunCommand(Commands, Cwds) ==
  /\ UNCHANGED cvars
  /\ UNCHANGED hvars
  /\ UNCHANGED kvars
  /\ UNCHANGED rvars
  /\ \E command \in Commands, cwd \in Cwds :
       LET args == [tool |-> "Bash", command |-> command, cwd |-> cwd]
       IN /\ tool_args' = args
          /\ tool_ret' \in run_command_tool(access, args)
  /\ g_file_before' = file
  /\ g_wrote' = FALSE
  /\ UNCHANGED <<access, file, g_written, ovars, gvars>>

(***************************************************************************)
(* Command authorization of the Bash tool, for every policy and command.   *)
(***************************************************************************)
CmdChars == {"g", "G", "/", " ", "q"}
CmdEntries == {<<"g">>, <<" ", "G", " ">>, <<"g", "*">>, <<"?">>, <<"*">>, <<>>}
CmdModes == {"whitelist", "allow_all", "unset"}
CmdArgs == SeqsUpTo(CmdChars, MaxCmdLen)
CwdArgs == {<<>>, <<PathStr(TRUE, <<"a">>)>>}

InitCmd ==
  /\ InitCommon
  /\ InitNoSkills
  /\ g_keep_context = FALSE
  /\ InitNoHistory
  /\ pc = "tool"
  /\ provider = "api"
  /\ mode = "unset"
  /\ total_candidates = 1
  /\ token_registered = FALSE
  /\ result = NoResult
  /\ \E m \in CmdModes, cmds \in SeqsUpTo(CmdEntries, MaxCmds) :
       access = build_tool_access([mode |-> m, allowed_dirs |-> <<>>,
                                   allowed_commands |-> cmds], DataDir, <<>>)
  /\ tool_args = NoArgs
  /\ tool_ret = NoToolRet
  /\ file = NoFile
  /\ g_file_before = NoFile
  /\ g_written = NoFile
  /\ g_wrote = FALSE
  /\ tree = NoTree
  /\ timer = 0
  /\ InitRest

\* one call per policy
NextCmd == tool_ret = NoToolRet /\ RunCommand(CmdArgs, CwdArgs)

SpecCmd == InitCmd /\ [][NextCmd]_vars

CaseFold(text) == [i \in 1..Len(text) |-> IF text[i] = "G" THEN "g" ELSE text[i]]
Strip(text) ==
  LET solid == {i \in 1..Len(text) : text[i] # " "}
  IN IF solid = {} THEN <<>> ELSE SubSeq(text, Least(solid), Greatest(solid))

\* the leading executable token of a command line: what stands between the
\* quotes when the line begins with a quoted text, else its first word
LeadingToken(command) ==
  LET solid == {i \in 1..Len(command) : command[i] # " "}
      t == IF solid = {} THEN <<>> ELSE SubSeq(command, Least(solid), Len(command))
      closing == {i \in 2..Len(t) : t[i] = "q"}
      blanks == {i \in 1..Len(t) : t[i] = " "}
  IN IF t # <<>> /\ t[1] = "q" /\ closing # {} THEN SubSeq(t, 2, Least(closing) - 1)
     ELSE IF blanks = {} THEN t ELSE SubSeq(t, 1, Least(blanks) - 1)

\* the file-name form of a token: its last path component if it has one
NameForm(token) ==
  LET solid == {i \in 1..Len(token) : token[i] # "/"}
  IN IF solid = {} THEN token
     ELSE LET e == Greatest(solid)
              seps == {i \in 1..e : token[i] = "/"}
          IN SubSeq(token, IF seps = {} THEN 1 ELSE Greatest(seps) + 1, e)

\* some allowed_commands pattern (trimmed, lower-cased; "*" alone allows
\* everything) matches the lower-cased token or its lower-cased file name
MatchesSomePattern(command, patterns) ==
  LET forms == {CaseFold(LeadingToken(command)), CaseFold(NameForm(LeadingToken(command)))}
  IN \E i \in 1..Len(patterns) :
       LET pat == CaseFold(Strip(patterns[i]))
       IN /\ pat # <<>>
          /\ \E f \in forms :
               IF \E k \in 1..Len(pat) : pat[k] \in {"*", "?"}
               THEN glob_matches(pat, f) ELSE pat = f

CommandRefused == tool_ret = CmdRet("Ok", "command not in allowed list", FALSE)

\* C8: under whitelist a Bash command is refused with the "command not in
\* allowed list" message exactly when its leading token, lower-cased, in full
\* form and in file-name form, matches no allowed_commands pattern; a refused
\* command is not started and its message is an ordinary tool result for the
\* model, not a request-level error; under allow_all no command is refused.
C8_UnlistedCommandRefused ==
  tool_args.tool = "Bash" =>
    /\ access.mode = "whitelist" =>
         /\ CommandRefused <=> ~MatchesSomePattern(tool_args.command, access.allowed_commands)
         /\ CommandRefused => ~tool_ret.started /\ Disposition(tool_ret) = "tool_result"
    /\ access.mode = "allow_all" =>
         /\ ~CommandRefused
         /\ tool_ret.text # "cwd not allowed"
         /\ Disposition(tool_ret) # "request_error"
    /\ access.mode = "unset" => ~tool_ret.started /\ Disposition(tool_ret) = "request_error"

\* a quoted command with an upper-case letter and a directory part, refused
\* although the policy lists a pattern
C8_Witness ==
  /\ tool_args.tool = "Bash"
  /\ access.mode = "whitelist"
  /\ CommandRefused
  /\ \E i \in 1..Len(access.allowed_commands) : access.allowed_commands[i] # <<>>
  /\ \E i \in 1..Len(tool_args.command) : tool_args.command[i] = "G"
  /\ LeadingToken(tool_args.command) # NameForm(LeadingToken(tool_args.command))

(***************************************************************************)
(* Write and Edit.                                                         *)
(***************************************************************************)
\* what a tool call did: its return value, the file afterwards, and whether
\* it wrote the file
Outcome(r, data, w) == [ret |-> r, data |-> data, wrote |-> w]

\* lines 3295-3316
write_file_tool(acc, args, data) ==
  IF acc.mode = "unset" THEN {Outcome(ToolErr(TOOL_MODE_UNSET_ERROR), data, FALSE)}
  ELSE LET allowed == ensure_path_allowed(acc, args.path)
       IN IF allowed.res = "Err" THEN {Outcome(allowed, data, FALSE)}
          ELSE {Outcome(ToolErr("write failed"), data, FALSE),
                Outcome(ToolOk("written"),
                        IF args.append = <<TRUE>> /\ data # NoFile
                        THEN data \o as_bytes(args.content)
                        ELSE as_bytes(args.content),
                        TRUE)}

IsPrefixAt(text, old, i) ==
  i + Len(old) - 1 <= Len(text) /\ SubSeq(text, i, i + Len(old) - 1) = old

\* str::matches(old).count(): matches that do not overlap, from the left
RECURSIVE matches_count(_, _)
matches_count(text, old) ==
  IF old = <<>> THEN Len(text) + 1
  ELSE IF Len(text) < Len(old) THEN 0
  ELSE IF IsPrefixAt(text, old, 1)
  THEN 1 + matches_count(SubSeq(text, Len(old) + 1, Len(text)), old)
  ELSE matches_count(Tail(text), old)

\* str::replacen(old, new, n); an empty old matches before every character
\* and at the end
RECURSIVE replacen(_, _, _, _)
replacen(text, old, new, n) ==
  IF n = 0 THEN text
  ELSE IF old = <<>>
  THEN (IF text = <<>> THEN new
        ELSE new \o <<Head(text)>> \o replacen(Tail(text), old, new, n - 1))
  ELSE IF Len(text) < Len(old) THEN text
  ELSE IF IsPrefixAt(text, old, 1)
  THEN new \o replacen(SubSeq(text, Len(old) + 1, Len(text)), old, new, n - 1)
  ELSE <<Head(text)>> \o replacen(Tail(text), old, new, n)

\* str::replace(old, new): every match
replace(text, old, new) == replacen(text, old, new, Len(text) + 1)

\* fs::read_to_string: <<>> when the bytes are not well-formed, else <<text>>
read_to_string(data) ==
  LET text == from_utf8_lossy(data)
  IN IF \E i \in 1..Len(text) : text[i] = "�" THEN <<>> ELSE <<text>>

EditOk(text, count) == [res |-> "Ok", text |-> text, count |-> count]

\* mutant: the file is rewritten whatever the replacement gave
NothingReplaced_Never(updated, content) == FALSE

\* line 3331
NothingReplaced(updated, content) == updated = content

\* lines 3318-3336
edit_file_tool(acc, args, data) ==
  IF acc.mode = "unset" THEN {Outcome(ToolErr(TOOL_MODE_UNSET_ERROR), data, FALSE)}
  ELSE LET allowed == ensure_path_allowed(acc, args.path)
       IN IF allowed.res = "Err" THEN {Outcome(allowed, data, FALSE)}
          ELSE IF data = NoFile \/ read_to_string(data) = <<>>
          THEN {Outcome(ToolErr("read failed"), data, FALSE)}
          ELSE LET content == read_to_string(data)[1]
                   count == matches_count(content, args.old)
                   replace_all == IF args.replace_all = <<>> THEN TRUE
                                  ELSE args.replace_all[1]
                   updated == IF replace_all THEN replace(content, args.old, args.new)
                              ELSE replacen(content, args.old, args.new, 1)
               IN IF NothingReplaced(updated, content)
                  THEN {Outcome(EditOk("nothing matched", 0), data, FALSE)}
                  ELSE {Outcome(ToolErr("write failed"), data, FALSE),
                        Outcome(EditOk("replaced", count), as_bytes(updated), TRUE)}

\* the Write tool is called
WriteFile(Paths, Contents) ==
  /\ UNCHANGED cvars
  /\ UNCHANGED hvars
  /\ UNCHANGED kvars
  /\ UNCHANGED rvars
  /\ \E path \in Paths, content \in Contents, append \in {<<>>, <<TRUE>>, <<FALSE>>} :
       LET args == [tool |-> "Write", path |-> path, content |-> content, append |-> append]
       IN \E o \in write_file_tool(access, args, file) :
            /\ tool_args' = args
            /\ tool_ret' = o.ret
            /\ file' = o.data
            /\ g_wrote' = o.wrote
            /\ g_written' = IF ~o.wrote THEN g_written
                            ELSE IF append = <<TRUE>> THEN NoFile ELSE content
  /\ g_file_before' = file
  /\ UNCHANGED <<access, ovars, gvars>>

\* the Edit tool is called
EditFile(Paths, Olds) ==
  /\ UNCHANGED cvars
  /\ UNCHANGED hvars
  /\ UNCHANGED kvars
  /\ UNCHANGED rvars
  /\ \E path \in Paths, old \in Olds, new \in Olds, ra \in {<<>>, <<TRUE>>, <<FALSE>>} :
       LET args == [tool |-> "Edit", path |-> path, old |-> old, new |-> new,
                    replace_all |-> ra]
       IN \E o \in edit_file_tool(access, args, file) :
            /\ tool_args' = args
            /\ tool_ret' = o.ret
            /\ file' = o.data
            /\ g_wrote' = o.wrote
            /\ g_written' = IF o.wrote THEN NoFile ELSE g_written
  /\ g_file_before' = file
  /\ UNCHANGED <<access, ovars, gvars>>

(***************************************************************************)
(* The file tools on one file: a first call of Write, Edit or Read on any  *)
(* file content, and a Read after a Write.                                 *)
(***************************************************************************)
\* longest content written, and longest file at the start, in characters
MaxFileLen == 3
\* longest old and new text of an Edit, in characters
MaxEditLen == 2

FileModes == {"whitelist", "allow_all", "unset"}
\* three spellings of the file's path /a/f; the base directory is /a
FilePaths == {PathStr(TRUE, <<"a", "f">>), PathStr(FALSE, <<".", "f">>),
              PathStr(TRUE, <<"a", "..", "a", "f">>)}
WriteContents == SeqsUpTo({"a", "b", "é"}, MaxFileLen)
EditTexts == SeqsUpTo({"a", "b"}, MaxEditLen)
StartFiles == {NoFile, <<"T", "a">>} \cup SeqsUpTo({"a", "b"}, MaxFileLen)
ReadMaxes == {<<>>} \cup {<<n>> : n \in 0..(2 * MaxFileLen)}

InitFile ==
  /\ InitCommon
  /\ InitNoSkills
  /\ g_keep_context = FALSE
  /\ InitNoHistory
  /\ pc = "tool"
  /\ provider = "api"
  /\ mode = "unset"
  /\ total_candidates = 1
  /\ token_registered = FALSE
  /\ result = NoResult
  /\ \E m \in FileModes :
       access = build_tool_access([mode |-> m, allowed_dirs |-> <<PathStr(TRUE, <<"a">>)>>,
                                   allowed_commands |-> <<>>], DataDir, <<>>)
  /\ tool_args = NoArgs
  /\ tool_ret = NoToolRet
  /\ file \in StartFiles
  /\ g_file_before = NoFile
  /\ g_written = NoFile
  /\ g_wrote = FALSE
  /\ tree = NoTree
  /\ timer = 0
  /\ InitRest

NextFile ==
  \/ tool_args = NoArgs /\ WriteFile(FilePaths, WriteContents)
  \/ tool_args = NoArgs /\ EditFile(FilePaths, EditTexts)
  \/ tool_args.tool \in {"none", "Write"} /\ ReadFile(FilePaths, ReadMaxes)

SpecFile == InitFile /\ [][NextFile]_vars

Occurs(old, text) == \E i \in 1..(Len(text) + 1) : IsPrefixAt(text, old, i)

\* C9: an Edit whose old and new are the same text leaves the file as it
\* was; an Edit whose old text does not occur in the file leaves the file as
\* it was, writes nothing and returns "nothing matched" with no substitution,
\* not an error.
C9_EditNoOp ==
  (tool_args.tool = "Edit" /\ access.mode # "unset"
     /\ g_file_before # NoFile /\ read_to_string(g_file_before) # <<>>) =>
    /\ tool_args.old = tool_args.new =>
         /\ file = g_file_before
         /\ tool_ret.res = "Ok"
    /\ ~Occurs(tool_args.old, read_to_string(g_file_before)[1]) =>
         /\ file = g_file_before
         /\ ~g_wrote
         /\ tool_ret = EditOk("nothing matched", 0)

\* an Edit of every occurrence whose old and new are the same text, which
\* occurs twice in the file
C9_Witness ==
  /\ tool_args.tool = "Edit"
  /\ access.mode = "whitelist"
  /\ g_file_before = <<"a", "b", "a">>
  /\ file = g_file_before
  /\ tool_args.old = <<"a">>
  /\ tool_args.new = <<"a">>
  /\ tool_args.replace_all = <<TRUE>>
  /\ tool_ret = EditOk("nothing matched", 0)

\* the number of occurrences of old, from the left, whose replacement by new
\* turns content into the bytes of the file
Replaced(content, old, new, data) ==
  LET made == {n \in 0..(Len(content) + 1) : as_bytes(replacen(content, old, new, n)) = data}
  IN Least(made)

\* the latest call is an Edit that reported a substitution count
Edited ==
  /\ tool_args.tool = "Edit"
  /\ tool_ret.res = "Ok"
  /\ tool_ret.text = "replaced"

\* C27: the substitution count an Edit returns is the number of occurrences it
\* replaced in the file: every occurrence of old when replace_all is true or
\* not given, and one when replace_all is false.
C27_CountIsReplaced ==
  Edited =>
    LET content == read_to_string(g_file_before)[1]
    IN /\ tool_ret.count =
            Replaced(content, tool_args.old, tool_args.new, file)
       /\ tool_ret.count =
            IF tool_args.replace_all = <<FALSE>> THEN 1
            ELSE matches_count(content, tool_args.old)

\* the latest call is a Read that succeeded on the content of an overwriting Write
ReadBack ==
  /\ tool_args.tool = "Read"
  /\ tool_ret.res = "Ok"
  /\ g_written # NoFile

EffectiveMax == IF tool_args.max_bytes = <<>> THEN DEFAULT_MAX_READ_BYTES
                ELSE tool_args.max_bytes[1]

\* C10 (as stated): content under max_bytes is read back exactly; content at
\* or above max_bytes comes back as max_bytes bytes of text with a marker
\* giving len(content) - max_bytes.
C10_RoundTripTruncatesAtOrAbove ==
  ReadBack =>
    LET n == Len(as_bytes(g_written))
    IN /\ n < EffectiveMax => tool_ret.text = g_written /\ tool_ret.marker = <<>>
       /\ n >= EffectiveMax =>
            /\ Len(as_bytes(tool_ret.text)) = EffectiveMax
            /\ tool_ret.marker = <<n - EffectiveMax>>

\* the characters of text that lie wholly within its first k bytes
RECURSIVE WholeChars(_, _)
WholeChars(text, k) ==
  IF text = <<>> THEN <<>>
  ELSE LET w == Len(as_bytes(<<Head(text)>>))
       IN IF w > k THEN <<>> ELSE <<Head(text)>> \o WholeChars(Tail(text), k - w)

\* C10 (amended): content of at most max_bytes bytes is read back exactly,
\* with no marker; content above max_bytes comes back as the characters that
\* lie wholly within the first max_bytes bytes, followed by one replacement
\* character when the limit cuts a character in two, and then the marker
\* giving len(content) - max_bytes.
C10_RoundTripTruncatesAbove ==
  ReadBack =>
    LET n == Len(as_bytes(g_written))
        whole == WholeChars(g_written, EffectiveMax)
    IN /\ n <= EffectiveMax => tool_ret.text = g_written /\ tool_ret.marker = <<>>
       /\ n > EffectiveMax =>
            /\ tool_ret.text = IF Len(as_bytes(whole)) = EffectiveMax THEN whole
                               ELSE Append(whole, "�")
            /\ tool_ret.marker = <<n - EffectiveMax>>

\* a Read whose limit cuts the two-byte character of the written content
C10_Witness ==
  /\ ReadBack
  /\ tool_ret.marker # <<>>
  /\ tool_ret.text # <<>>
  /\ tool_ret.text[Len(tool_ret.text)] = "�"

(***************************************************************************)
(* More claims about run_tool_loop (SpecLoop).                             *)
(***************************************************************************)
\* C11 (as stated): the loop never stops on a round in which a tool call
\* failed; after such a round it goes on to the next model call.
C11_FailureNeverEndsLoop ==
  pc = "loop_ret" => ~has_failure(tool_results)

\* C11 (amended): a failed tool call is recorded as that call's result, so
\* that every call of a finished round has a result, and the loop goes on to
\* the next model call unless the repeat-failure detector ends it in Aborted;
\* the loop returns an error only for TOOLS_MODE_UNSET, under mode unset.
C11_FailureIsAResult ==
  /\ (pc = "model" /\ site = "cont") => Len(tool_results) = Len(result.calls)
  /\ (pc = "loop_ret" /\ has_failure(tool_results)) =>
       (RepeatAborted /\ g_streak >= MAX_REPEAT_TOOL_LOOPS)
  /\ (pc = "loop_ret" /\ ret.status = "Err") =>
       (ret.what = TOOL_MODE_UNSET_ERROR /\ mode = "unset")

\* a second round is over in which the command timed out, and the model is
\* called with that failure as the call's result
C11_Witness ==
  /\ pc = "model"
  /\ g_exec_rounds = 2
  /\ tool_results = <<ToolError("command timed out")>>
  /\ "timeout" \in orphans

\* ---------------------------------------------------------------------------
\* Claims about retry_with_cancel (SpecRequest)
\* ---------------------------------------------------------------------------

\* the errors the retry policy names as never retried, besides the permanent ones
NeverRetried == {REQUEST_CANCELLED_ERROR, TOOL_MODE_UNSET_ERROR}

\* C12: a model call is repeated at most MODEL_MAX_RETRIES times after its first
\* failure; a backoff sleep only follows a transient error, it is the attempt-th
\* of its call site and lasts BACKOFF_STEP_MS * attempt; cancellation and the
\* unconfigured-sandbox error are never retried.
C12_RetryPolicy ==
  /\ attempt \in 0..MODEL_MAX_RETRIES
  /\ pc = "backoff" =>
       /\ is_transient_model_error(g_last_err)
       /\ g_last_err \notin NeverRetried
       /\ attempt \in 1..MODEL_MAX_RETRIES
       /\ delay = BACKOFF_STEP_MS * attempt
  /\ pc # "backoff" => delay = 0
  /\ \A k \in NeverRetried : ~should_retry_model_error(k)

\* the last permitted retry of a call is being waited for, twice as long as the first
C12_Witness ==
  /\ pc = "backoff"
  /\ attempt = MODEL_MAX_RETRIES
  /\ delay = 2 * BACKOFF_STEP_MS
  /\ g_last_err = "transient"

\* ---------------------------------------------------------------------------
\* Claims about the overflow-recovery candidates (SpecRequest)
\* ---------------------------------------------------------------------------

\* the first model call ended in an overflow failure that the request reported
OverflowReported ==
  /\ pc = "done"
  /\ g_tried # <<>>
  /\ is_context_overflow_error(g_tried[Len(g_tried)].res)

\* the candidates tried are the first ones of the list, in list order, each but
\* the latest having failed with an overflow error
TriedInOrder ==
  /\ Len(g_tried) <= total_candidates
  /\ \A i \in 1..Len(g_tried) :
       /\ g_tried[i].cand = i - 1
       /\ i < Len(g_tried) => is_context_overflow_error(g_tried[i].res)

\* C13 as stated: the candidates are tried in list order, each after an
\* overflow failure of the one before, none after a success, and an overflow
\* failure is reported only when the last candidate of the list has failed.
C13_OverflowOnlyAfterLastCandidate ==
  /\ TriedInOrder
  /\ OverflowReported => Len(g_tried) = total_candidates

\* C13 amended: the same, where the report of an overflow failure after the
\* last candidate is promised for the api provider only; the other provider
\* makes one call and reports its overflow failure at once.
C13_CandidatesInOrder ==
  /\ TriedInOrder
  /\ (OverflowReported /\ provider = "api") => Len(g_tried) = total_candidates
  /\ (OverflowReported /\ provider # "api") => Len(g_tried) = 1
  /\ (pc = "model" /\ site = "first") => cand = Len(g_tried)

\* two candidates overflowed and the third one answered
C13_Witness ==
  /\ provider = "api"
  /\ total_candidates = 3
  /\ Len(g_tried) = 3
  /\ g_tried[1].res = "overflow" /\ g_tried[2].res = "overflow"
  /\ g_tried[3].res = "ok"

\* ---------------------------------------------------------------------------
\* Conversation history: compression, squeezing, the messages of the first call
\* (commands/mod.rs lines 528-779, model/api.rs lines 1298-1400 and 1780-1838)
\* ---------------------------------------------------------------------------

MIN_HISTORY_MESSAGES_BEFORE_COMPRESSION == 14

\* Option<T>: None is {}, Some(x) is {x}
Some(x) == {x}
Unwrap(o) == CHOOSE x \in o : TRUE

Max(a, b) == IF a >= b THEN a ELSE b
clamp(x, lo, hi) == Max(lo, Min(x, hi))

Text(src, len) == [src |-> src, len |-> len]

\* a ChatHistoryMessage; calls is the list of the ids of its tool calls
HistoryMessage(role, content, id, calls) ==
  [role |-> role, content |-> content, tool_call_id |-> id, tool_calls |-> calls]

\* lines 528-539, for a text of ASCII characters
estimate_text_tokens(text) == (text.len + 3) \div 4 + 1

RECURSIVE history_tokens(_)
history_tokens(h) ==
  IF h = <<>> THEN 0
  ELSE estimate_text_tokens(Head(h).content) + 8 + history_tokens(Tail(h))

\* lines 541-551
estimate_history_tokens(sp, um, h) ==
  estimate_text_tokens(sp) + estimate_text_tokens(um) + 24 + history_tokens(h)

\* lines 3218-3224
truncate_string(text, max_chars) ==
  [value |-> [text EXCEPT !.len = Min(text.len, max_chars)],
   truncated |-> text.len > max_chars]

\* format!("{}\n...(message truncated)") and "...(summary truncated)": 23 characters more
with_note(t) == IF t.truncated THEN [t.value EXCEPT !.len = @ + 23] ELSE t.value

\* str::to_lowercase on the role names that occur (none has blanks to trim)
RoleLower(role) ==
  CASE role = "Assistant" -> "assistant"
    [] role = "System" -> "system"
    [] OTHER -> role

\* lines 561-567: the number of characters of the role word of a summary line
role_word_chars(role) ==
  IF RoleLower(role) = "assistant" THEN 9
  ELSE IF RoleLower(role) = "system" THEN 6
  ELSE 4

\* lines 568-574: "- role: snippet" with " ..." after a cut snippet, and "\n"
summary_line_chars(msg) ==
  LET t == truncate_string(msg.content, 220)
  IN 2 + role_word_chars(msg.role) + 2 + t.value.len + (IF t.truncated THEN 4 ELSE 0) + 1

\* lines 557-583: the loop from message idx on, with used characters so far;
\* "- ...(more omitted)\n" has 20 characters
RECURSIVE summary_chars_from(_, _, _, _)
summary_chars_from(h, idx, used, max_chars) ==
  IF idx >= Len(h) THEN used
  ELSE IF idx >= 80 THEN used + 20
  ELSE LET line_chars == summary_line_chars(h[idx + 1])
       IN IF used + line_chars > max_chars THEN used + 20
          ELSE summary_chars_from(h, idx + 1, used + line_chars, max_chars)

\* lines 553-586; the heading has 53 characters
build_history_compression_summary(h, max_chars) ==
  Text("summary", summary_chars_from(h, 0, 53, max_chars))

\* lines 622-627 and 723-728
summary_message(older, max_chars) ==
  HistoryMessage("assistant", build_history_compression_summary(older, max_chars), {}, {})

\* Vec::remove at the 0-based index i
remove(h, i) == SubSeq(h, 1, i) \o SubSeq(h, i + 2, Len(h))

\* mutant: the oldest message goes first, the summary included
remove_idx_First(has_summary, c) == 0

\* lines 640-644 and 667-671
remove_idx(has_summary, c) == IF has_summary /\ Len(c) > 1 THEN 1 ELSE 0

\* lines 636-647
RECURSIVE drop_to_target(_, _, _, _, _, _)
drop_to_target(c, sp, um, target_tokens, has_summary, n) ==
  IF estimate_history_tokens(sp, um, c) > target_tokens /\ Len(c) > 4 /\ n < 128
  THEN drop_to_target(remove(c, remove_idx(has_summary, c)), sp, um, target_tokens,
                      has_summary, n + 1)
  ELSE c

\* lines 650-662
RECURSIVE shorten_summary(_, _, _, _, _)
shorten_summary(c, sp, um, target_tokens, summary_limit) ==
  IF estimate_history_tokens(sp, um, c) > target_tokens /\ summary_limit > 600
  THEN shorten_summary([c EXCEPT ![1].content = with_note(truncate_string(@, summary_limit))],
                       sp, um, target_tokens, (summary_limit * 3) \div 4)
  ELSE c

\* lines 664-673
RECURSIVE drop_to_trigger(_, _, _, _, _)
drop_to_trigger(c, sp, um, trigger_tokens, has_summary) ==
  IF estimate_history_tokens(sp, um, c) > trigger_tokens /\ Len(c) > 2
  THEN drop_to_trigger(remove(c, remove_idx(has_summary, c)), sp, um, trigger_tokens,
                       has_summary)
  ELSE c

\* lines 589-691; ratios are in percent
compress_history_if_needed(h_opt, sp, um, st) ==
  IF h_opt = {} THEN {}
  ELSE LET h == Unwrap(h_opt)
           max_context_tokens == Max(st.max_context_tokens, 4096)
           trigger_ratio == clamp(st.ratio_pct, 70, 99)
           trigger_tokens == (max_context_tokens * trigger_ratio) \div 100
           keep_recent == Min(Len(h), 12)
           split_idx == Len(h) - keep_recent
           older == SubSeq(h, 1, split_idx)
           recent == SubSeq(h, split_idx + 1, Len(h))
           has_summary == older # <<>>
           compressed == (IF has_summary THEN <<summary_message(older, 6000)>> ELSE <<>>)
                           \o recent
           target_ratio == Max(trigger_ratio - 8, 70)
           target_tokens == (max_context_tokens * target_ratio) \div 100
           dropped == drop_to_target(compressed, sp, um, target_tokens, has_summary, 0)
           shortened == IF has_summary /\ dropped # <<>>
                        THEN shorten_summary(dropped, sp, um, target_tokens, 3000)
                        ELSE dropped
       IN IF Len(h) <= 2 THEN Some(h)
          ELSE IF Len(h) < MIN_HISTORY_MESSAGES_BEFORE_COMPRESSION THEN Some(h)
          ELSE IF estimate_history_tokens(sp, um, h) <= trigger_tokens THEN Some(h)
          ELSE Some(drop_to_trigger(shortened, sp, um, trigger_tokens, has_summary))

\* lines 730-741: the recent messages, each cut to truncate_each_to characters
RECURSIVE squeeze_recent(_, _)
squeeze_recent(recent, truncate_each_to) ==
  IF recent = <<>> THEN <<>>
  ELSE <<IF truncate_each_to = {} THEN Head(recent)
         ELSE [Head(recent) EXCEPT
                 !.content = with_note(truncate_string(@, Unwrap(truncate_each_to)))]>>
       \o squeeze_recent(Tail(recent), truncate_each_to)

\* lines 707-744
squeeze_history_keep_recent(h_opt, keep_recent, summary_chars, truncate_each_to) ==
  IF h_opt = {} THEN {}
  ELSE LET h == Unwrap(h_opt)
           split_idx == Len(h) - keep_recent
           older == SubSeq(h, 1, split_idx)
           recent == SubSeq(h, split_idx + 1, Len(h))
       IN IF Len(h) <= keep_recent THEN Some(h)
          ELSE Some((IF summary_chars # {} /\ older # <<>>
                     THEN <<summary_message(older, Unwrap(summary_chars))>> ELSE <<>>)
                    \o squeeze_recent(recent, truncate_each_to))

\* lines 746-779
build_overflow_recovery_histories(h_opt, sp, um, st) ==
  IF h_opt = {} THEN <<h_opt>>
  ELSE LET aggressive_storage ==
             [max_context_tokens |-> Max(st.max_context_tokens, 4096),
              ratio_pct |-> Min(clamp(st.ratio_pct, 70, 99), 82)]
           aggressive == compress_history_if_needed(h_opt, sp, um, aggressive_storage)
       IN <<h_opt,
            squeeze_history_keep_recent(aggressive, 8, Some(1800), Some(2800)),
            squeeze_history_keep_recent(h_opt, 4, {}, Some(1500))>>

\* api.rs lines 1800-1806
normalize_history_role(role) ==
  IF RoleLower(role) \in {"system", "user", "assistant", "tool"}
  THEN Some(RoleLower(role)) ELSE {}

\* a Message of the request (api.rs lines 30-35)
Message(role, content, calls, id) ==
  [role |-> role, content |-> content, tool_calls |-> calls, tool_call_id |-> id]

\* api.rs lines 1808-1838
history_message_to_message(msg) ==
  LET role == normalize_history_role(msg.role)
      has_tool_calls == msg.tool_calls # {} /\ Unwrap(msg.tool_calls) # <<>>
      content == IF has_tool_calls /\ msg.content.len = 0 THEN {} ELSE Some(msg.content)
  IN IF role = {} THEN {}
     ELSE Some(Message(Unwrap(role), content, msg.tool_calls, msg.tool_call_id))

\* api.rs lines 1316-1324 and 1372-1380: the messages that convert, in order
RECURSIVE history_messages(_)
history_messages(h) ==
  IF h = <<>> THEN <<>>
  ELSE LET m == history_message_to_message(Head(h))
       IN (IF m = {} THEN <<>> ELSE <<Unwrap(m)>>) \o history_messages(Tail(h))

\* mutant: the current user message is cut like a history message
chat_with_tools_CutUser(sp, um, h_opt) ==
  <<Message("system", Some(sp), {}, {})>>
  \o (IF h_opt = {} THEN <<>> ELSE history_messages(Unwrap(h_opt)))
  \o <<Message("user", Some(with_note(truncate_string(um, 1500))), {}, {})>>

\* api.rs lines 1298-1400: the messages of the request chat_with_tools sends
chat_with_tools(sp, um, h_opt) ==
  <<Message("system", Some(sp), {}, {})>>
  \o (IF h_opt = {} THEN <<>> ELSE history_messages(Unwrap(h_opt)))
  \o <<Message("user", Some(um), {}, {})>>

\* chat_with_assistant lines 937-994: the history is compressed, the candidates
\* are built, and the call is made with one of them (which one depends on the
\* overflow failures before it)
FirstModelCall ==
  /\ UNCHANGED cvars
  /\ UNCHANGED kvars
  /\ UNCHANGED <<ovars, gvars, tvars, rvars>>
  /\ messages = <<>>
  /\ LET model_history ==
           compress_history_if_needed(history, system_prompt, user_message, storage)
         history_candidates ==
           build_overflow_recovery_histories(model_history, system_prompt, user_message,
                                             storage)
     IN \E idx \in 1..Len(history_candidates) :
          messages' = chat_with_tools(system_prompt, user_message, history_candidates[idx])
  /\ UNCHANGED <<history, system_prompt, user_message, storage>>

MaxHistoryLen == 15

\* a history of n messages of sz characters each, users and assistants in turn,
\* with one round of two tool calls and their results from message p on (p = 0: none)
HistoryOf(n, p, sz, odd_role) ==
  [i \in 1..n |->
     IF p > 0 /\ i = p
       THEN HistoryMessage("assistant", Text("h" \o ToString(i), 0), {},
                           Some(<<"call_1", "call_2">>))
     ELSE IF p > 0 /\ i = p + 1
       THEN HistoryMessage("tool", Text("h" \o ToString(i), sz), Some("call_1"), {})
     ELSE IF p > 0 /\ i = p + 2
       THEN HistoryMessage("tool", Text("h" \o ToString(i), sz), Some("call_2"), {})
     ELSE IF i = 1
       THEN HistoryMessage(odd_role, Text("h" \o ToString(i), sz), {}, {})
     ELSE HistoryMessage(IF i % 2 = 1 THEN "user" ELSE "assistant",
                         Text("h" \o ToString(i), sz), {}, {})]

HistoryShapes == {np \in (0..MaxHistoryLen) \X (0..MaxHistoryLen) :
                    np[2] = 0 \/ np[2] + 2 <= np[1]}

Histories ==
  {{}} \cup
  {Some(HistoryOf(np[1], np[2], sz, r)) :
     np \in HistoryShapes, sz \in {40, 750, 3000}, r \in {"user", "System", "function"}}

InitHistory ==
  /\ InitCommon
  /\ InitNoSkills
  /\ g_keep_context = FALSE
  /\ InitNoTool
  /\ pc = "prepare"
  /\ provider = "api"
  /\ mode = "unset"
  /\ total_candidates = 1
  /\ token_registered = FALSE
  /\ result = NoResult
  /\ history \in Histories
  /\ system_prompt \in {Text("system", 400), Text("system", 9000), Text("system", 51200)}
  /\ user_message \in {Text("user", 30), Text("user", 2000)}
  /\ storage \in {[max_context_tokens |-> 2048, ratio_pct |-> 75],
                  [max_context_tokens |-> 16000, ratio_pct |-> 95]}
  /\ messages = <<>>

NextHistory == FirstModelCall

SpecHistory == InitHistory /\ [][NextHistory]_vars

\* ---------------------------------------------------------------------------
\* Claims about the history sent with the first model call (SpecHistory)
\* ---------------------------------------------------------------------------

\* the prior turns of a request: all its messages but the first and the last
PriorTurns(msgs) == SubSeq(msgs, 2, Len(msgs) - 1)

\* C14: whichever history candidate the request is made with, compressed or
\* squeezed, its first message is the system prompt and its last message the
\* current user message, both exactly as given; only the prior turns between
\* them differ from the history that came in.
C14_OnlyPriorTurnsChange ==
  messages # <<>> =>
    /\ Len(messages) >= 2
    /\ messages[1] = Message("system", {system_prompt}, {}, {})
    /\ messages[Len(messages)] = Message("user", {user_message}, {}, {})
    /\ \A i \in 1..Len(PriorTurns(messages)) :
         \A t \in PriorTurns(messages)[i].content : t.src \notin {"system", "user"}

\* a long history went out as a summary and fewer, cut messages, with a long
\* user message
C14_Witness ==
  /\ messages # <<>>
  /\ history # {}
  /\ Len(PriorTurns(messages)) = 9
  /\ Len(PriorTurns(messages)) < Len(Unwrap(history))
  /\ \E t \in PriorTurns(messages)[1].content : t.src = "summary"
  /\ \E t \in PriorTurns(messages)[9].content : t.len = 2800 + 23
  /\ user_message.len = 2000

\* message i of msgs, if a tool result, carries an id issued by the nearest
\* assistant message before it, with nothing but that round's results between
AnswersItsRound(msgs, i) ==
  msgs[i].role = "tool" =>
    /\ msgs[i].tool_call_id # {}
    /\ \E j \in 1..(i - 1) :
         /\ msgs[j].role = "assistant"
         /\ msgs[j].tool_calls # {}
         /\ \E k \in DOMAIN Unwrap(msgs[j].tool_calls) :
              Unwrap(msgs[j].tool_calls)[k] = Unwrap(msgs[i].tool_call_id)
         /\ \A m \in (j + 1)..(i - 1) : msgs[m].role = "tool"

\* the history that came in has every tool result after its round's calls
HistoryWellFormed ==
  history # {} =>
    \A i \in DOMAIN Unwrap(history) : AnswersItsRound(Unwrap(history), i)

\* C20: in the message list sent to the model, built from a history that came
\* in with every tool result after its round's calls, compressed or squeezed as
\* the budget requires, each tool-result message references a tool_call_id
\* issued by the assistant message that precedes that round's results.
C20_ToolResultsFollowTheirCalls ==
  (messages # <<>> /\ HistoryWellFormed) =>
    \A i \in DOMAIN messages : AnswersItsRound(messages, i)

\* the token counts the ratios of the storage settings stand for
TriggerTokens ==
  (Max(storage.max_context_tokens, 4096) * clamp(storage.ratio_pct, 70, 99)) \div 100
TargetTokens ==
  (Max(storage.max_context_tokens, 4096) * Max(clamp(storage.ratio_pct, 70, 99) - 8, 70))
    \div 100

\* the first model call was prepared for a history that compression is
\* triggered for
Triggered ==
  /\ messages # <<>>
  /\ history # {}
  /\ Len(Unwrap(history)) >= MIN_HISTORY_MESSAGES_BEFORE_COMPRESSION
  /\ estimate_history_tokens(system_prompt, user_message, Unwrap(history)) > TriggerTokens

\* what compression returned for the history of the request
Compressed ==
  Unwrap(compress_history_if_needed(history, system_prompt, user_message, storage))

CompressedTokens == estimate_history_tokens(system_prompt, user_message, Compressed)

\* the last n messages of the history that came in
Recent(n) == SubSeq(Unwrap(history), Len(Unwrap(history)) - n + 1, Len(Unwrap(history)))

IsSummary(msg) == msg.role = "assistant" /\ msg.content.src = "summary"

\* C30 as stated: whenever compression is triggered, the returned history is
\* one summary message followed by a fixed number (twelve) of the most recent
\* original messages, unmodified and in order, and its estimated token cost is
\* under the target.
C30_SummaryThenFixedRecent ==
  Triggered =>
    /\ IsSummary(Compressed[1])
    /\ Tail(Compressed) = Recent(12)
    /\ CompressedTokens < TargetTokens

\* C30 amended: whenever compression is triggered, the returned history is one
\* summary message followed by the k most recent original messages, unmodified
\* and in order, with k from 1 to 12; its estimated cost is at most the target
\* when k is 4 or more and at most the trigger when k is 2 or more.
C30_SummaryThenSomeRecent ==
  Triggered =>
    LET k == Len(Compressed) - 1
    IN /\ k \in 1..12
       /\ IsSummary(Compressed[1])
       /\ Tail(Compressed) = Recent(k)
       /\ k >= 4 => CompressedTokens <= TargetTokens
       /\ k >= 2 => CompressedTokens <= TriggerTokens

\* compression went down to the summary and the latest message and the
\* estimate is still above the trigger
C30_Witness ==
  /\ Triggered
  /\ Len(Compressed) = 2
  /\ Len(Unwrap(history)) = 14
  /\ CompressedTokens > TriggerTokens

\* the overflow-recovery candidates of the request, built from the compressed
\* history (lines 937-955)
Candidates ==
  build_overflow_recovery_histories(
    compress_history_if_needed(history, system_prompt, user_message, storage),
    system_prompt, user_message, storage)

CandidateTokens(i) == estimate_history_tokens(system_prompt, user_message, Unwrap(Candidates[i]))

\* C31: the candidate list starts with the history as it was handed over, and
\* every later candidate has no more messages and no higher estimated token
\* cost than the candidate before it.
C31_CandidatesShrink ==
  (messages # <<>> /\ history # {}) =>
    /\ Candidates[1] = compress_history_if_needed(history, system_prompt, user_message,
                                                   storage)
    /\ \A i \in 2..Len(Candidates) :
         /\ Len(Unwrap(Candidates[i])) <= Len(Unwrap(Candidates[i - 1]))
         /\ CandidateTokens(i) <= CandidateTokens(i - 1)

\* what holds of the list: three candidates, the first as handed over, the
\* later ones with no more messages than the first, at most 9 and 4
C31_CandidatesBounded ==
  (messages # <<>> /\ history # {}) =>
    /\ Len(Candidates) = 3
    /\ Candidates[1] = compress_history_if_needed(history, system_prompt, user_message,
                                                   storage)
    /\ Len(Unwrap(Candidates[2])) <= Min(9, Len(Unwrap(Candidates[1])))
    /\ Len(Unwrap(Candidates[3])) <= Min(4, Len(Unwrap(Candidates[1])))

\* ---------------------------------------------------------------------------
\* run_tool_loop with its transcript, for a few rounds (SpecTranscript)
\* ---------------------------------------------------------------------------

MaxTranscriptRounds == 1

TranscriptRounds == {<<ReadA>>, <<ReadB, ReadA>>, <<BashFg>>, <<WriteA, BashFg>>,
                     <<BadJson, ProgressUpd, ReadA>>}
TranscriptResponses ==
  {TextResp(FALSE), TextResp(TRUE)} \cup {ToolResp(cs) : cs \in TranscriptRounds}

InitTranscript ==
  /\ InitCommon
  /\ InitNoSkills
  /\ InitNoTool
  /\ InitNoHistory
  /\ g_keep_context = TRUE
  /\ pc = "loop_top"
  /\ provider = "api"
  /\ mode \in Modes
  /\ total_candidates = 1
  /\ token_registered = TRUE
  /\ result \in TranscriptResponses

NextTranscript ==
  \/ LoopTop
  \/ ToolStart
  \/ ToolFinish
  \/ ModelOk(TranscriptResponses, MaxTranscriptRounds + 1)

SpecTranscript == InitTranscript /\ [][NextTranscript]_vars

\* ---------------------------------------------------------------------------
\* Claims about the transcript of run_tool_loop (SpecTranscript)
\* ---------------------------------------------------------------------------

\* the first response of the loop was a text: no round has begun
FirstResponseWasText == result.kind = "Text" /\ loops = 0

\* C15: when the first response is plain text, the loop returns Ok with that
\* text (a Done outcome), no tool was executed and the transcript is empty.
C15_TextFirstMeansNoTools ==
  (pc = "loop_ret" /\ FirstResponseWasText) =>
    /\ ret.status = "Ok" /\ ret.what = "text"
    /\ ret.incomplete = result.incomplete
    /\ OutcomeOf(ret) = "Done"
    /\ g_exec_rounds = 0
    /\ tool_results = <<>>
    /\ effects = {} /\ orphans = {} /\ fg_running = 0 /\ bg_running = 0
    /\ collected_tool_context = <<>>

\* the loop has returned the text it was entered with
C15_Witness ==
  /\ pc = "loop_ret"
  /\ FirstResponseWasText
  /\ result = TextResp(TRUE)
  /\ ret.status = "Ok" /\ ret.incomplete

\* a round is under way: its calls are being executed or its results go to the model
InRound == pc \in {"exec", "tool_run"} \/ (pc = "model" /\ site = "cont")

\* the messages the round under way has put on the transcript so far
RoundContext ==
  SubSeq(collected_tool_context,
         Len(collected_tool_context) - Len(tool_results),
         Len(collected_tool_context))

\* C19: within a round the calls are executed one at a time in the order of the
\* response: while call number call_idx is dispatched or running, exactly the
\* calls before it have results and no other call is running; the transcript
\* holds the assistant message of the round followed by one tool message per
\* finished call, in the order of the calls, each with its call's id and result.
C19_CallsInOrder ==
  InRound =>
    /\ call_idx \in 1..Len(result.calls)
    /\ pc \in {"exec", "tool_run"} => Len(tool_results) = call_idx - 1
    /\ pc = "model" => Len(tool_results) = Len(result.calls)
    /\ fg_running = (IF pc = "tool_run" THEN 1 ELSE 0)
    /\ Len(collected_tool_context) > Len(tool_results)
    /\ RoundContext[1].role = "assistant"
    /\ Len(Unwrap(RoundContext[1].tool_calls)) = Len(result.calls)
    /\ \A i \in 1..Len(tool_results) :
         /\ RoundContext[i + 1].role = "tool"
         /\ RoundContext[i + 1].tool_call_id = {Unwrap(RoundContext[1].tool_calls)[i]}
         /\ RoundContext[i + 1].content = {tool_results[i]}

\* the second call of the second round is a command that is running: the first
\* call's result is on the transcript, after the three results of the first round
C19_Witness ==
  /\ pc = "tool_run"
  /\ g_exec_rounds = 2
  /\ result.calls = <<WriteA, BashFg>>
  /\ call_idx = 2
  /\ Len(tool_results) = 1
  /\ Len(collected_tool_context) = 6

\* ---------------------------------------------------------------------------
\* run_tool_loop with failing model calls and cancel_request (SpecDispatch)
\* ---------------------------------------------------------------------------

MaxDispatchRounds == 1

DispatchResponses == {TextResp(FALSE), ToolResp(<<WriteA, BashFg>>)}

InitDispatch ==
  /\ InitCommon
  /\ InitNoSkills
  /\ InitNoTool
  /\ InitNoHistory
  /\ g_keep_context = TRUE
  /\ pc = "loop_top"
  /\ provider = "api"
  /\ mode \in {"unset", "allow_all"}
  /\ total_candidates = 1
  /\ token_registered = TRUE
  /\ result \in DispatchResponses

NextDispatch ==
  \/ Cancel
  \/ LoopTop
  \/ ToolStart
  \/ ToolFinish
  \/ ToolCancelled
  \/ ModelOk(DispatchResponses, MaxDispatchRounds + 1)
  \/ ModelCancelled
  \/ ModelErr
  \/ Backoff

SpecDispatch == InitDispatch /\ [][NextDispatch]_vars

\* the calls the model has returned in this loop: those of the rounds begun,
\* which the transcript has, and those of its latest response
Issued ==
  UNION {{Unwrap(collected_tool_context[i].tool_calls)[k] :
            k \in DOMAIN Unwrap(collected_tool_context[i].tool_calls)} :
         i \in {j \in DOMAIN collected_tool_context :
                  collected_tool_context[j].tool_calls # {}}}
  \cup (IF result.kind = "ToolCalls"
        THEN {CallId(loops + 1, k) : k \in DOMAIN result.calls}
        ELSE {})

Dispatches(id) == Cardinality({i \in DOMAIN g_dispatched : g_dispatched[i] = id})

\* the results of the round are with the model, or on their way to it
ResultsGoBack == pc \in {"model", "backoff"} /\ site \in {"cont", "cont_trunc"}

\* C21 as stated: every call the model has returned is dispatched exactly once
\* by the time its round is over or the loop has returned, whatever model-call
\* retries followed.
C21_EveryCallDispatchedOnce ==
  (ResultsGoBack \/ pc = "loop_ret") =>
    \A id \in Issued : Dispatches(id) = 1

\* C21 amended: no call is dispatched twice, whatever retries of the model call
\* follow its round; calls are dispatched in the order returned; when a round's
\* results go back to the model every call of it was dispatched once. Calls
\* stay undispatched only when the loop has returned before reaching them.
C21_DispatchedAtMostOnce ==
  /\ \A i \in DOMAIN g_dispatched : g_dispatched[i] \in Issued
  /\ \A id \in Issued : Dispatches(id) <= 1
  /\ \A i, j \in DOMAIN g_dispatched :
       i < j => \/ g_dispatched[i][1] < g_dispatched[j][1]
                \/ /\ g_dispatched[i][1] = g_dispatched[j][1]
                   /\ g_dispatched[i][2] < g_dispatched[j][2]
  /\ ResultsGoBack => \A id \in Issued : Dispatches(id) = 1
  /\ (\E id \in Issued : Dispatches(id) = 0) =>
       pc \in {"loop_top", "exec", "tool_run", "loop_ret"}

\* after a round of two calls the continue call failed twice with a transient
\* error and once with an overflow, and is now retried with cut outputs
C21_Witness ==
  /\ pc = "backoff"
  /\ site = "cont_trunc"
  /\ attempt = MODEL_MAX_RETRIES
  /\ g_dispatched = <<CallId(1, 1), CallId(1, 2)>>
  /\ result.calls = <<WriteA, BashFg>>

\* ---------------------------------------------------------------------------
\* The skill registry: SkillManager (skills/mod.rs) and SkillParser
\* (skills/parser.rs).  Names are sequences of characters.
\* ---------------------------------------------------------------------------

MaxNameLen == 3
MaxSkillDirs == 2

\* the characters that occur, by class
LowerChars == {"a", "b", "g", "c", "e", "i", "k", "l", "o", "r", "s", "t"}
DigitChars == {"1"}
is_ascii_lowercase(c) == c \in LowerChars
is_ascii_digit(c) == c \in DigitChars

SkillOk(v) == [res |-> "Ok", value |-> v]
SkillErr(e) == [res |-> "Err", err |-> e]

\* str::contains("--")
contains_double_hyphen(name) ==
  \E i \in 1..(Len(name) - 1) : name[i] = "-" /\ name[i + 1] = "-"

\* mutant: a hyphen at either end is let through
validate_skill_name_EdgeHyphen(name) ==
  IF name = <<>> \/ Len(as_bytes(name)) > 64 THEN SkillErr("length")
  ELSE IF contains_double_hyphen(name) THEN SkillErr("double hyphen")
  ELSE IF \E i \in 1..Len(name) :
            ~is_ascii_lowercase(name[i]) /\ ~is_ascii_digit(name[i]) /\ name[i] # "-"
  THEN SkillErr("characters")
  ELSE SkillOk("valid")

\* skills/mod.rs lines 322-342; name.len() counts bytes
validate_skill_name(name) ==
  IF name = <<>> \/ Len(as_bytes(name)) > 64 THEN SkillErr("length")
  ELSE IF Head(name) = "-" \/ name[Len(name)] = "-" THEN SkillErr("edge hyphen")
  ELSE IF contains_double_hyphen(name) THEN SkillErr("double hyphen")
  ELSE IF \E i \in 1..Len(name) :
            ~is_ascii_lowercase(name[i]) /\ ~is_ascii_digit(name[i]) /\ name[i] # "-"
  THEN SkillErr("characters")
  ELSE SkillOk("valid")

\* an entry of the skills directory: a plain file, or a directory with or
\* without a definition file whose front matter parses or not and declares a
\* name or none
DirEntry(dir_name, kind, md, declared, valid) ==
  [dir_name |-> dir_name, kind |-> kind, md |-> md, declared |-> declared, valid |-> valid]

\* Path::exists of skills_dir.join(name)
exists(dir, name) == \E e \in dir : e.dir_name = name
EntryOf(dir, name) == CHOOSE e \in dir : e.dir_name = name

\* skills/mod.rs lines 303-316: SKILL.md, else skill.md, else None
resolve_skill_md_path(dir, name) ==
  IF exists(dir, name) /\ EntryOf(dir, name).kind = "dir" /\ EntryOf(dir, name).md # "none"
  THEN Some(EntryOf(dir, name).md) ELSE {}

\* mutant: the declared name is taken as it is written
resolve_name_NoFallback(dir_name, frontmatter_name) ==
  IF frontmatter_name # {} THEN SkillOk(Unwrap(frontmatter_name))
  ELSE SkillOk(<<>>)

\* skills/parser.rs lines 133-149
resolve_name(dir_name, frontmatter_name) ==
  IF frontmatter_name # {} /\ trim(Unwrap(frontmatter_name)) # <<>>
  THEN SkillOk(trim(Unwrap(frontmatter_name)))
  ELSE IF trim(dir_name) # <<>> THEN SkillOk(trim(dir_name))
  ELSE SkillErr("no name")

\* skills/parser.rs lines 31-47, on the definition file of entry e
parse_metadata(e) ==
  IF ~e.valid THEN SkillErr("front matter")
  ELSE resolve_name(e.dir_name, e.declared)

\* what an operation leaves: its result, the directory, its file-system calls
Done(r, dir, calls) == [ret |-> r, dir |-> dir, calls |-> calls]

\* skills/mod.rs lines 183-197
load_skill(dir, name) ==
  IF validate_skill_name(name).res = "Err" THEN Done(validate_skill_name(name), dir, 0)
  ELSE IF resolve_skill_md_path(dir, name) = {} THEN Done(SkillErr("not found"), dir, 2)
  ELSE Done(parse_metadata(EntryOf(dir, name)), dir, 3)

\* mutant: create does not look whether the name is taken
create_skill_with_meta_Overwrite(dir, name) ==
  IF validate_skill_name(name).res = "Err" THEN Done(validate_skill_name(name), dir, 0)
  ELSE Done(SkillOk("created"),
            {e \in dir : e.dir_name # name}
              \cup {DirEntry(name, "dir", "SKILL.md", Some(name), TRUE)}, 6)

\* skills/mod.rs lines 211-243; the front matter written declares name
create_skill_with_meta(dir, name) ==
  IF validate_skill_name(name).res = "Err" THEN Done(validate_skill_name(name), dir, 0)
  ELSE IF exists(dir, name) THEN Done(SkillErr("exists"), dir, 1)
  ELSE Done(SkillOk("created"),
            dir \cup {DirEntry(name, "dir", "SKILL.md", Some(name), TRUE)}, 6)

\* skills/mod.rs lines 256-285; a plain file of that name makes the write fail
update_skill_with_meta(dir, name) ==
  IF validate_skill_name(name).res = "Err" THEN Done(validate_skill_name(name), dir, 0)
  ELSE IF ~exists(dir, name) THEN Done(SkillErr("not found"), dir, 1)
  ELSE IF EntryOf(dir, name).kind # "dir" THEN Done(SkillErr("io"), dir, 4)
  ELSE LET e == EntryOf(dir, name)
           md == IF e.md = "none" THEN "SKILL.md" ELSE e.md
       IN Done(SkillOk("updated"),
               (dir \ {e}) \cup {DirEntry(name, "dir", md, Some(name), TRUE)}, 8)

\* skills/mod.rs lines 287-299
delete_skill(dir, name) ==
  IF validate_skill_name(name).res = "Err" THEN Done(validate_skill_name(name), dir, 0)
  ELSE IF ~exists(dir, name) THEN Done(SkillErr("not found"), dir, 1)
  ELSE IF EntryOf(dir, name).kind # "dir" THEN Done(SkillErr("io"), dir, 2)
  ELSE Done(SkillOk("deleted"), dir \ {EntryOf(dir, name)}, 2)

\* skills/mod.rs lines 142-180: the metadata of the directories that pass, each
\* with the entry it was read from; read_dir gives no order, the result is kept
\* as a set
discover_skills(dir) ==
  {[name |-> parse_metadata(e).value, g_entry |-> e] :
     e \in {d \in dir : /\ d.kind = "dir"
                        /\ d.md # "none"
                        /\ parse_metadata(d).res = "Ok"
                        /\ parse_metadata(d).value = d.dir_name}}

\* one call of a SkillManager operation
SkillCall(op, name, done) ==
  /\ UNCHANGED <<ovars, gvars, tvars, rvars, hvars, cvars>>
  /\ skill_args' = [op |-> op, name |-> name]
  /\ skill_ret' = done.ret
  /\ skills_dir' = done.dir
  /\ g_fs_calls' = done.calls
  /\ g_skills_before' = skills_dir
  /\ UNCHANGED avars

LoadSkill(Names) ==
  \E name \in Names : SkillCall("load", name, load_skill(skills_dir, name))

CreateSkill(Names) ==
  \E name \in Names : SkillCall("create", name, create_skill_with_meta(skills_dir, name))

UpdateSkill(Names) ==
  \E name \in Names : SkillCall("update", name, update_skill_with_meta(skills_dir, name))

DeleteSkill(Names) ==
  \E name \in Names : SkillCall("delete", name, delete_skill(skills_dir, name))

DiscoverSkills ==
  SkillCall("discover", <<>>,
            Done(SkillOk(discover_skills(skills_dir)), skills_dir, 1 + Cardinality(skills_dir)))

\* n times the character ch
Rep(ch, n) == [i \in 1..n |-> ch]

SkillNames ==
  SeqsUpTo({"a", "1", "-", "G", "é"}, MaxNameLen)
  \cup {Rep("a", 63), Rep("a", 64), Rep("a", 65), Rep("a", 63) \o <<"é">>,
        <<"a", "-", "1">> \o Rep("b", 61), <<" ", "a">>, <<"a", "_", "a">>}

\* what may lie in the skills directory: sound skills, a copy under another
\* name, a skill without a declared name, names with blanks, a directory
\* without a definition file, broken front matter, a plain file
DirCandidates ==
  {DirEntry(<<"a">>, "dir", "SKILL.md", Some(<<"a">>), TRUE),
   DirEntry(<<"a", "-", "1">>, "dir", "skill.md", Some(<<" ", "a", "-", "1", " ">>), TRUE),
   DirEntry(<<"g">>, "dir", "SKILL.md", {}, TRUE),
   DirEntry(<<"g", "1">>, "dir", "SKILL.md", Some(<<" ">>), TRUE),
   DirEntry(<<"a", "1">>, "dir", "SKILL.md", Some(<<"a">>), TRUE),
   DirEntry(<<"G">>, "dir", "SKILL.md", Some(<<"g">>), TRUE),
   DirEntry(<<" ", "b">>, "dir", "SKILL.md", {}, TRUE),
   DirEntry(<<"b">>, "dir", "none", {}, FALSE),
   DirEntry(<<"1">>, "dir", "SKILL.md", Some(<<"1">>), FALSE),
   DirEntry(<<"a", "a">>, "file", "none", {}, FALSE)}

InitSkills ==
  /\ InitCommon
  /\ InitNoTool
  /\ InitNoHistory
  /\ g_keep_context = FALSE
  /\ pc = "idle"
  /\ provider = "api"
  /\ mode = "unset"
  /\ total_candidates = 1
  /\ token_registered = FALSE
  /\ result = NoResult
  /\ skills_dir \in {d \in SUBSET DirCandidates : Cardinality(d) <= MaxSkillDirs}
  /\ skill_args = NoSkillArgs
  /\ skill_ret = NoSkillRet
  /\ g_fs_calls = 0
  /\ g_skills_before = {}
  /\ InitNoCache

\* one management operation, then possibly a scan
NextSkills ==
  \/ skill_args = NoSkillArgs /\ LoadSkill(SkillNames)
  \/ skill_args = NoSkillArgs /\ CreateSkill(SkillNames)
  \/ skill_args = NoSkillArgs /\ UpdateSkill(SkillNames)
  \/ skill_args = NoSkillArgs /\ DeleteSkill(SkillNames)
  \/ skill_args.op # "discover" /\ DiscoverSkills

SpecSkills == InitSkills /\ [][NextSkills]_vars

\* ---------------------------------------------------------------------------
\* Claims about the skill registry (SpecSkills)
\* ---------------------------------------------------------------------------

\* the skill-name rule: 1 to 64 characters, each a lowercase ASCII letter, a
\* digit or a hyphen, no hyphen first or last, no two hyphens in a row
NameRule(name) ==
  /\ Len(name) \in 1..64
  /\ \A i \in 1..Len(name) : name[i] \in LowerChars \cup DigitChars \cup {"-"}
  /\ name[1] # "-"
  /\ name[Len(name)] # "-"
  /\ \A i \in 1..(Len(name) - 1) : ~(name[i] = "-" /\ name[i + 1] = "-")

ManagedByName == skill_args.op \in {"load", "create", "update", "delete"}

\* C16: load, create, update and delete succeed or reach the file system only
\* for a name that satisfies the skill-name rule; for every other name they
\* return an error with no file-system call made and the directory as it was,
\* and a name that satisfies the rule is never refused for its form.
C16_OnlyValidNamesActedOn ==
  ManagedByName =>
    /\ ~NameRule(skill_args.name) =>
         /\ skill_ret.res = "Err"
         /\ g_fs_calls = 0
         /\ skills_dir = g_skills_before
    /\ NameRule(skill_args.name) => g_fs_calls > 0
    /\ skill_ret.res = "Ok" => NameRule(skill_args.name)

\* a name with a hyphen at its end was refused by delete while a directory of
\* the skills root was there to lose
C16_Witness ==
  /\ skill_args = [op |-> "delete", name |-> <<"a", "-">>]
  /\ skill_ret.res = "Err"
  /\ skills_dir # {}
  /\ g_fs_calls = 0

\* the name a directory's definition file declares, blanks around it aside; a
\* file that declares none (or a blank one) goes by the name of its directory
DeclaredName(e) ==
  IF e.declared # {} /\ Strip(Unwrap(e.declared)) # <<>>
  THEN Strip(Unwrap(e.declared)) ELSE Strip(e.dir_name)

\* a directory of the skills root with a definition file whose front matter parses
Readable(e) == e.kind = "dir" /\ e.md # "none" /\ e.valid

\* C17: every skill a scan returns carries the name its definition file
\* declares and that name is the name of its directory; a directory whose
\* declared name is not its own name is not in the result, and every readable
\* directory whose declared name is its own name is.
C17_DiscoveredNameIsDirName ==
  skill_args.op = "discover" =>
    /\ \A s \in skill_ret.value :
         /\ s.g_entry \in skills_dir
         /\ s.name = s.g_entry.dir_name
         /\ s.name = DeclaredName(s.g_entry)
    /\ \A e \in skills_dir :
         (\E s \in skill_ret.value : s.g_entry = e)
           <=> (Readable(e) /\ DeclaredName(e) = e.dir_name)

\* a scan of a sound skill and a copy of it under another directory name
\* returned the sound one only
C17_Witness ==
  /\ skill_args.op = "discover"
  /\ \E e \in skills_dir : e.dir_name = <<"a", "1">> /\ e.declared = {<<"a">>}
  /\ \E e \in skills_dir : e.dir_name = <<"a">>
  /\ {s.name : s \in skill_ret.value} = {<<"a">>}

\* a directory of that name was in the skills root before the operation
DirectoryBefore ==
  \E e \in g_skills_before : e.dir_name = skill_args.name /\ e.kind = "dir"

\* the scan finds a skill of that name
Discovered(dir, name) == \E sk \in discover_skills(dir) : sk.name = name

\* C23: create succeeds only when nothing of that name is in the skills root,
\* and then the skill is there and discovered; update and delete succeed only
\* when the skill's directory is there, update leaving it discovered and delete
\* leaving it absent; in every other state the operation returns an error and
\* the skills root stays as it was.
C23_SkillLifecycle ==
  /\ skill_args.op = "create" =>
       /\ skill_ret.res = "Ok" <=>
            (NameRule(skill_args.name) /\ ~exists(g_skills_before, skill_args.name))
       /\ skill_ret.res = "Ok" =>
            (~DirectoryBefore /\ Discovered(skills_dir, skill_args.name))
  /\ skill_args.op \in {"update", "delete"} =>
       (skill_ret.res = "Ok" <=> (NameRule(skill_args.name) /\ DirectoryBefore))
  /\ (skill_args.op = "update" /\ skill_ret.res = "Ok") =>
       Discovered(skills_dir, skill_args.name)
  /\ (skill_args.op = "delete" /\ skill_ret.res = "Ok") =>
       (~exists(skills_dir, skill_args.name)
        /\ skills_dir = {e \in g_skills_before : e.dir_name # skill_args.name})
  /\ (skill_args.op \in {"create", "update", "delete"} /\ skill_ret.res = "Err") =>
       skills_dir = g_skills_before

\* create was refused for a name whose directory is there
C23_Witness ==
  /\ skill_args = [op |-> "create", name |-> <<"a">>]
  /\ skill_ret.res = "Err"
  /\ DirectoryBefore
  /\ skills_dir = g_skills_before

\* ---------------------------------------------------------------------------
\* The cached list of available skills: get_available_skills_cached and the
\* version counter (commands/mod.rs lines 68-82, 425-443, 2240-2259; lib.rs 69-74)
\* ---------------------------------------------------------------------------

MaxBumps == 2

\* mutant: the list is stored under the value the counter has when it is stored
version_to_store_Now(version, now) == now

\* line 440: cache.loaded_version = version, the value loaded at line 429
version_to_store(version, now) == version

\* line 429: the request loads the counter
LoadVersion(r) ==
  /\ requests[r].pc = "idle"
  /\ requests' = [requests EXCEPT ![r].pc = "check", ![r].version = skills_version]
  /\ UNCHANGED <<skills_version, skills_cache>>

\* lines 430-435: under the lock, the cached list is returned if it is
\* initialized and was stored under the version loaded
CheckCache(r) ==
  /\ requests[r].pc = "check"
  /\ requests' =
       [requests EXCEPT
          ![r].pc = IF skills_cache.initialized
                       /\ skills_cache.loaded_version = requests[r].version
                    THEN "served" ELSE "scan",
          ![r].list = IF skills_cache.initialized
                         /\ skills_cache.loaded_version = requests[r].version
                      THEN skills_cache.skills ELSE @,
          ![r].g_checked = skills_cache,
          ![r].g_counter_at_check = skills_version]
  /\ UNCHANGED <<skills_version, skills_cache>>

\* line 437: the scan, outside the lock
Scan(r) ==
  /\ requests[r].pc = "scan"
  /\ requests' =
       [requests EXCEPT
          ![r].pc = "store",
          ![r].list = SkillList({sk.name : sk \in discover_skills(skills_dir)},
                                skills_version)]
  /\ UNCHANGED <<skills_version, skills_cache>>

\* lines 438-442: under the lock again, the list is stored and returned
Store(r) ==
  /\ requests[r].pc = "store"
  /\ skills_cache' =
       [initialized |-> TRUE,
        loaded_version |-> version_to_store(requests[r].version, skills_version),
        skills |-> requests[r].list]
  /\ requests' = [requests EXCEPT ![r].pc = "returned"]
  /\ UNCHANGED skills_version

\* get_available_skills_cached touches nothing but the counter and the cache
OnlyCache ==
  /\ UNCHANGED <<ovars, gvars, tvars, rvars, hvars, cvars>>
  /\ UNCHANGED <<qvars, fvars>>
  /\ UNCHANGED <<skills_dir, skill_args, skill_ret, g_fs_calls, g_skills_before>>

RequestLoadsVersion == OnlyCache /\ \E r \in Requests : LoadVersion(r)

RequestChecksCache == OnlyCache /\ \E r \in Requests : CheckCache(r)

RequestScans == OnlyCache /\ \E r \in Requests : Scan(r)

RequestStores == OnlyCache /\ \E r \in Requests : Store(r)

\* lines 68-82 as called from the watcher's callback (lib.rs 71-74)
WatcherBump ==
  /\ OnlyCache
  /\ skills_version <= MaxBumps
  /\ skills_version' = skills_version + 1
  /\ UNCHANGED <<skills_cache, requests>>

\* lines 2247-2249 and 2256-2258: after create_skill or delete_skill returned
\* Ok the command bumps the counter; on Err it returns without
CommandReturn ==
  /\ UNCHANGED <<ovars, gvars, tvars, rvars, hvars, cvars>>
  /\ skill_args.op \in {"create", "delete"}
  /\ skills_version' = IF skill_ret.res = "Ok" THEN skills_version + 1 ELSE skills_version
  /\ skill_args' = NoSkillArgs
  /\ skill_ret' = NoSkillRet
  /\ UNCHANGED <<skills_dir, g_fs_calls, g_skills_before, skills_cache, requests>>
  /\ UNCHANGED <<qvars, fvars>>

CacheNames == {<<"a">>}

InitCache ==
  /\ InitCommon
  /\ InitNoTool
  /\ InitNoHistory
  /\ g_keep_context = FALSE
  /\ pc = "idle"
  /\ provider = "api"
  /\ mode = "unset"
  /\ total_candidates = 1
  /\ token_registered = FALSE
  /\ result = NoResult
  /\ skills_dir \in {{}, {DirEntry(<<"a">>, "dir", "SKILL.md", Some(<<"a">>), TRUE)}}
  /\ skill_args = NoSkillArgs
  /\ skill_ret = NoSkillRet
  /\ g_fs_calls = 0
  /\ g_skills_before = {}
  /\ InitNoCache

NextCache ==
  \/ RequestLoadsVersion
  \/ RequestChecksCache
  \/ RequestScans
  \/ RequestStores
  \/ WatcherBump
  \/ skill_args = NoSkillArgs /\ skills_version <= MaxBumps /\ CreateSkill(CacheNames)
  \/ skill_args = NoSkillArgs /\ skills_version <= MaxBumps /\ DeleteSkill(CacheNames)
  \/ CommandReturn

SpecCache == InitCache /\ [][NextCache]_vars

\* ---------------------------------------------------------------------------
\* Claims about the cached list of skills (SpecCache)
\* ---------------------------------------------------------------------------

\* request r went on to scan
Rescanned(r) == requests[r].pc \in {"scan", "store", "returned"}

\* C18 as stated, the current value of the counter being its value when the
\* cache is consulted: a request scans only if the cache was uninitialized or
\* recorded another version than the counter had, and a list served from the
\* cache was scanned when the counter already had that value.
C18_FreshAgainstCounter ==
  \A r \in Requests :
    /\ Rescanned(r) =>
         \/ ~requests[r].g_checked.initialized
         \/ requests[r].g_checked.loaded_version # requests[r].g_counter_at_check
    /\ requests[r].pc = "served" =>
         requests[r].list.g_scan_version >= requests[r].g_counter_at_check

\* C18 amended, the value being the one the request loaded at its start: a
\* request scans only if the cache was uninitialized or recorded another version
\* than the request loaded, and a list served from the cache was scanned when
\* the counter had reached the value the request loaded.
C18_FreshAgainstLoadedVersion ==
  \A r \in Requests :
    /\ Rescanned(r) =>
         \/ ~requests[r].g_checked.initialized
         \/ requests[r].g_checked.loaded_version # requests[r].version
    /\ requests[r].pc = "served" =>
         /\ requests[r].g_checked.initialized
         /\ requests[r].g_checked.loaded_version = requests[r].version
         /\ requests[r].list.g_scan_version >= requests[r].version

\* a request was served the list another request scanned after a bump
C18_Witness ==
  \E r \in Requests :
    /\ requests[r].pc = "served"
    /\ requests[r].version = 2
    /\ requests[r].list.g_scan_version = 2
    /\ requests[r].list.skills = {<<"a">>}

\* ---------------------------------------------------------------------------
\* The map from request id to cancellation token, with concurrent requests
\* (commands/mod.rs lines 222-232, 413-423, 924-926, 1285, 2201-2203, 2234)
\* ---------------------------------------------------------------------------

\* mutant: registering always inserts a new token
register_cancel_token_Insert(map, request_id, new_token) ==
  [map |-> [map EXCEPT ![request_id] = {new_token}], token |-> new_token]

\* lines 413-418: map.entry(request_id).or_insert_with(CancellationToken::new).clone()
register_cancel_token(map, request_id, new_token) ==
  IF map[request_id] = {}
  THEN [map |-> [map EXCEPT ![request_id] = {new_token}], token |-> new_token]
  ELSE [map |-> map, token |-> Unwrap(map[request_id])]

\* lines 420-423: map.remove(request_id)
clear_cancel_token(map, request_id) == [map EXCEPT ![request_id] = {}]

\* the requests with this id that are between register and clear
Registered(request_id) ==
  {r \in Chats : chats[r].pc = "running" /\ chats[r].request_id = request_id}

OnlyTokens ==
  /\ UNCHANGED <<ovars, gvars, tvars, rvars, hvars, cvars>>
  /\ UNCHANGED <<skills_dir, skill_args, skill_ret, g_fs_calls, g_skills_before>>
  /\ UNCHANGED <<skills_version, skills_cache, requests, fvars>>

\* chat_with_assistant lines 924-926, invoke_skill lines 2201-2203: the request
\* comes with an id of the caller's choice and gets its token; a token made by
\* CancellationToken::new is named after the request that made it
RegisterCancelToken ==
  /\ OnlyTokens
  /\ \E r \in Chats, id \in RequestIds :
       /\ chats[r].pc = "idle"
       /\ LET reg == register_cancel_token(request_cancellations, id, r)
          IN /\ request_cancellations' = reg.map
             /\ chats' = [chats EXCEPT ![r] = [pc |-> "running", request_id |-> id,
                                               token |-> reg.token,
                                               g_peer_ended |-> FALSE]]
  /\ UNCHANGED <<cancelled_tokens, g_missed>>

\* lines 1285 and 2234: the request is over, with whatever outcome
ClearCancelToken ==
  /\ OnlyTokens
  /\ \E r \in Chats :
       /\ chats[r].pc = "running"
       /\ request_cancellations' =
            clear_cancel_token(request_cancellations, chats[r].request_id)
       /\ chats' = [c \in Chats |->
                     IF c = r THEN [chats[c] EXCEPT !.pc = "done"]
                     ELSE IF c \in Registered(chats[r].request_id)
                     THEN [chats[c] EXCEPT !.g_peer_ended = TRUE]
                     ELSE chats[c]]
  /\ UNCHANGED <<cancelled_tokens, g_missed>>

\* lines 222-232: cancel_request(request_id)
CancelRequest ==
  /\ OnlyTokens
  /\ \E id \in RequestIds :
       /\ cancelled_tokens' = cancelled_tokens \cup request_cancellations[id]
       /\ g_missed' = g_missed \cup
                        {r \in Registered(id) : chats[r].token \notin request_cancellations[id]}
  /\ UNCHANGED <<request_cancellations, chats>>

InitTokens ==
  /\ InitCommon
  /\ InitNoTool
  /\ InitNoHistory
  /\ InitNoSkills
  /\ g_keep_context = FALSE
  /\ pc = "idle"
  /\ provider = "api"
  /\ mode = "unset"
  /\ total_candidates = 1
  /\ token_registered = FALSE
  /\ result = NoResult

NextTokens ==
  \/ RegisterCancelToken
  \/ ClearCancelToken
  \/ CancelRequest

SpecTokens == InitTokens /\ [][NextTokens]_vars

\* ---------------------------------------------------------------------------
\* Claims about the token map (SpecTokens)
\* ---------------------------------------------------------------------------

\* C22 as stated, a request being in flight from register to clear: the map
\* holds an entry for an id exactly while some request with that id is in
\* flight, and no cancel_request has missed a request in flight with its id.
C22_EntryWhileInFlight ==
  /\ \A id \in RequestIds : request_cancellations[id] # {} <=> Registered(id) # {}
  /\ g_missed = {}

\* C22 amended: an entry of the map belongs to a request in flight that holds
\* its token; a request in flight finds its id mapped to its own token as long
\* as no other request with the same id has ended since it registered, and
\* only requests for which one has are missed by cancel_request.
C22_EntryUntilFirstClear ==
  /\ \A id \in RequestIds :
       request_cancellations[id] # {} =>
         \E r \in Registered(id) : request_cancellations[id] = {chats[r].token}
  /\ \A r \in Chats :
       (chats[r].pc = "running" /\ ~chats[r].g_peer_ended) =>
         request_cancellations[chats[r].request_id] = {chats[r].token}
  /\ \A r \in g_missed : chats[r].g_peer_ended

\* two requests in flight under one id share one token, and cancel_request
\* reached both
C22_Witness ==
  /\ chats[1].pc = "running" /\ chats[2].pc = "running"
  /\ chats[1].request_id = chats[2].request_id
  /\ chats[1].token = chats[2].token
  /\ chats[1].token \in cancelled_tokens
  /\ g_missed = {}

\* ---------------------------------------------------------------------------
\* The parser of a skill's definition file (skills/parser.rs)
\* ---------------------------------------------------------------------------

MaxTools == 3

\* str::split on a set of characters: the pieces between them, empty ones too
RECURSIVE split(_, _)
split(text, chars) ==
  LET at == {i \in 1..Len(text) : text[i] \in chars}
  IN IF at = {} THEN <<text>>
     ELSE <<SubSeq(text, 1, Least(at) - 1)>>
          \o split(SubSeq(text, Least(at) + 1, Len(text)), chars)

\* the trimmed items that are not empty, in order (lines 110-115 and 118-123)
RECURSIVE push_trimmed(_)
push_trimmed(items) ==
  IF items = <<>> THEN <<>>
  ELSE (IF trim(Head(items)) = <<>> THEN <<>> ELSE <<trim(Head(items))>>)
       \o push_trimmed(Tail(items))

\* mutant: the items of a list are taken as written
parse_allowed_tools_ListAsWritten(value) ==
  IF value = {} THEN {}
  ELSE LET v == Unwrap(value)
           tools == IF v.kind = "Text"
                    THEN push_trimmed(split(v.text, {",", " ", "\n", "\t"}))
                    ELSE SelectSeq(v.list, LAMBDA item : item # <<>>)
       IN IF tools = <<>> THEN {} ELSE Some(tools)

\* parser.rs lines 105-131
parse_allowed_tools(value) ==
  IF value = {} THEN {}
  ELSE LET v == Unwrap(value)
           tools == IF v.kind = "Text"
                    THEN push_trimmed(split(v.text, {",", " ", "\n", "\t"}))
                    ELSE push_trimmed(v.list)
       IN IF tools = <<>> THEN {} ELSE Some(tools)

\* AllowedToolsField (lines 21-26)
AllowedText(text) == [kind |-> "Text", text |-> text]
AllowedList(list) == [kind |-> "List", list |-> list]

\* tool names, and what stands between and around them in a string value
ToolNames == {<<"R">>, <<"G", "b">>}
Separators == {<<",">>, <<" ">>, <<"\n">>, <<"\t">>, <<",", " ">>, <<"\r", "\n">>}
Margins == {<<>>, <<" ">>, <<",">>}

\* names joined by the separators seps[1], seps[2], ...
RECURSIVE Joined(_, _)
Joined(names, seps) ==
  IF names = <<>> THEN <<>>
  ELSE IF Len(names) = 1 THEN Head(names)
  ELSE Head(names) \o Head(seps) \o Joined(Tail(names), Tail(seps))

\* the two ways of writing the same names are parsed
ParseAllowedTools ==
  /\ UNCHANGED <<ovars, gvars, tvars, rvars, hvars, cvars, avars>>
  /\ UNCHANGED <<skills_dir, g_fs_calls, g_skills_before>>
  /\ \E names \in SeqsUpTo(ToolNames, MaxTools) :
       \E seps \in [1..(Len(names) - 1) -> Separators], lead \in Margins,
          trail \in Margins, pad \in {<<>>, <<" ">>} :
         LET text == lead \o Joined(names, seps) \o trail
             list == [i \in 1..Len(names) |-> pad \o names[i] \o pad]
         IN /\ skill_args' = [op |-> "allowed_tools", names |-> names,
                              text |-> text, list |-> list]
            /\ skill_ret' = [res |-> "Ok",
                             from_text |-> parse_allowed_tools(Some(AllowedText(text))),
                             from_list |-> parse_allowed_tools(Some(AllowedList(list)))]

MaxDocLines == 4

\* str::starts_with
str_starts_with(text, pat) == IsPrefixAt(text, pat, 1)

\* str::find of a text: <<>> is None, <<k>> the 0-based offset of the first match
str_find(text, pat) ==
  LET at == {i \in 1..Len(text) : IsPrefixAt(text, pat, i)}
  IN IF at = {} THEN <<>> ELSE <<Least(at) - 1>>

FrontmatterMark == <<"-", "-", "-">>
EndMark == <<"\n", "-", "-", "-">>

\* parser.rs lines 72-85, up to the text handed to serde_yaml, which takes it
\* (yaml_ok) or not
extract_frontmatter(text, yaml_ok) ==
  LET content == trim(text)
      rest == SubSeq(content, 4, Len(content))
      end_pos == str_find(rest, EndMark)
  IN IF ~str_starts_with(content, FrontmatterMark) THEN SkillErr("no frontmatter")
     ELSE IF end_pos = <<>> THEN SkillErr("no end marker")
     ELSE IF ~yaml_ok THEN SkillErr("yaml")
     ELSE SkillOk(trim(SubSeq(rest, 1, end_pos[1])))

\* mutant: the instructions begin at the line after the closing line
extract_instructions_NextLine(text) ==
  LET content == trim(text)
      rest == SubSeq(content, 4, Len(content))
      end_pos == str_find(rest, EndMark)
      after == SubSeq(content, 3 + end_pos[1] + 4 + 1, Len(content))
      nl == str_find(after, <<"\n">>)
  IN IF ~str_starts_with(content, FrontmatterMark) THEN SkillErr("no frontmatter")
     ELSE IF end_pos = <<>> THEN SkillErr("no end marker")
     ELSE IF nl = <<>> THEN SkillOk(<<>>)
     ELSE SkillOk(trim(SubSeq(after, nl[1] + 2, Len(after))))

\* parser.rs lines 87-103
extract_instructions(text) ==
  LET content == trim(text)
      rest == SubSeq(content, 4, Len(content))
      end_pos == str_find(rest, EndMark)
      instructions_start == 3 + end_pos[1] + 4
  IN IF ~str_starts_with(content, FrontmatterMark) THEN SkillErr("no frontmatter")
     ELSE IF end_pos = <<>> THEN SkillErr("no end marker")
     ELSE IF instructions_start >= Len(content) THEN SkillOk(<<>>)
     ELSE SkillOk(trim(SubSeq(content, instructions_start + 1, Len(content))))

\* parser.rs lines 49-70: the front matter, then the instructions
parse_full(text, yaml_ok) ==
  LET frontmatter == extract_frontmatter(text, yaml_ok)
      instructions == extract_instructions(text)
  IN IF frontmatter.res = "Err" THEN frontmatter
     ELSE IF instructions.res = "Err" THEN instructions
     ELSE [res |-> "Ok", yaml |-> frontmatter.value, instructions |-> instructions.value]

\* the lines definition files are made of: markers, lines that begin like a
\* marker, a metadata line, a body line, an empty line, two hyphens
DocLines == {<<"-", "-", "-">>, <<"-", "-", "-", "-">>, <<"-", "-", "-", "x">>,
             <<"n">>, <<"b">>, <<>>, <<"-", "-">>}

ParseFull ==
  /\ UNCHANGED <<ovars, gvars, tvars, rvars, hvars, cvars, avars>>
  /\ UNCHANGED <<skills_dir, g_fs_calls, g_skills_before>>
  /\ \E lines \in SeqsUpTo(DocLines, MaxDocLines), yaml_ok \in BOOLEAN :
       LET text == Joined(lines, [i \in 1..(Len(lines) - 1) |-> <<"\n">>])
       IN /\ skill_args' = [op |-> "parse_full", lines |-> lines, text |-> text,
                            yaml_ok |-> yaml_ok]
          /\ skill_ret' = parse_full(text, yaml_ok)

InitParser ==
  /\ InitCommon
  /\ InitNoTool
  /\ InitNoHistory
  /\ InitNoSkills
  /\ g_keep_context = FALSE
  /\ pc = "idle"
  /\ provider = "api"
  /\ mode = "unset"
  /\ total_candidates = 1
  /\ token_registered = FALSE
  /\ result = NoResult

NextParser ==
  \/ skill_args = NoSkillArgs /\ ParseAllowedTools
  \/ skill_args = NoSkillArgs /\ ParseFull

SpecParser == InitParser /\ [][NextParser]_vars

\* ---------------------------------------------------------------------------
\* Claims about the parser (SpecParser)
\* ---------------------------------------------------------------------------

\* C24: names written as one string, separated by commas, blanks, tabs or line
\* ends, and the same names written as a list, blanks around them or not, parse
\* to the same tool list: the names as written, in the order written (no list
\* at all when there is no name).
C24_StringAndListAgree ==
  skill_args.op = "allowed_tools" =>
    /\ skill_ret.from_text = skill_ret.from_list
    /\ skill_ret.from_text =
         (IF skill_args.names = <<>> THEN {} ELSE {skill_args.names})

\* three names, after a comma, separated by a comma with a blank and by a
\* line end with a carriage return, against the padded list
C24_Witness ==
  /\ skill_args.op = "allowed_tools"
  /\ skill_args.text = <<",", "R", ",", " ", "G", "b", "\r", "\n", "R">>
  /\ skill_args.list = << <<" ", "R", " ">>, <<" ", "G", "b", " ">>, <<" ", "R", " ">> >>
  /\ skill_ret.from_text = {<< <<"R">>, <<"G", "b">>, <<"R">> >>}

\* the lines of a text
LinesOf(text) == split(text, {"\n"})

BeginsWithMark(line) == Len(line) >= 3 /\ SubSeq(line, 1, 3) = FrontmatterMark

\* the index of the first line after the first that begins with '---' (0: none)
ClosingLine(lines) ==
  LET marks == {k \in 2..Len(lines) : BeginsWithMark(lines[k])}
  IN IF marks = {} THEN 0 ELSE Least(marks)

\* lines from..to joined by line feeds
RECURSIVE JoinLines(_, _, _)
JoinLines(lines, from, to) ==
  IF from > to THEN <<>>
  ELSE IF from = to THEN lines[from]
  ELSE lines[from] \o <<"\n">> \o JoinLines(lines, from + 1, to)

\* C25 as stated: a file whose first line is '---' and that has a later line
\* beginning with '---' gives as metadata the text between the two and as
\* instructions the trimmed text after the closing line; a file that does not
\* start with '---' or has no such later line is rejected.
C25_InstructionsAfterClosingLine ==
  skill_args.op = "parse_full" =>
    LET lines == skill_args.lines
        k == ClosingLine(lines)
    IN /\ (lines # <<>> /\ lines[1] = FrontmatterMark /\ k > 0 /\ skill_args.yaml_ok) =>
            /\ skill_ret.res = "Ok"
            /\ skill_ret.yaml = trim(JoinLines(lines, 2, k - 1))
            /\ skill_ret.instructions = trim(JoinLines(lines, k + 1, Len(lines)))
       /\ (~str_starts_with(skill_args.text, FrontmatterMark) \/ k = 0) =>
            skill_ret.res = "Err"

\* what follows the first three characters of a line
AfterMark(line) == SubSeq(line, 4, Len(line))

\* C25 amended: with the blank space around the file set aside, a file that
\* begins with '---' and has a later line beginning with '---' gives as
\* metadata the trimmed text between the opening '---' and that line, and as
\* instructions the trimmed text after the first three characters of that line,
\* the rest of the closing line included; a file that, so trimmed, does not
\* begin with '---' or has no such later line is rejected.
C25_InstructionsAfterClosingMark ==
  skill_args.op = "parse_full" =>
    LET lines == LinesOf(trim(skill_args.text))
        k == ClosingLine(lines)
        opened == BeginsWithMark(lines[1])
    IN /\ (opened /\ k > 0 /\ skill_args.yaml_ok) =>
            /\ skill_ret.res = "Ok"
            /\ skill_ret.yaml =
                 trim(JoinLines([lines EXCEPT ![1] = AfterMark(lines[1])], 1, k - 1))
            /\ skill_ret.instructions =
                 trim(JoinLines([lines EXCEPT ![k] = AfterMark(lines[k])], k, Len(lines)))
       /\ (~opened \/ k = 0 \/ ~skill_args.yaml_ok) => skill_ret.res = "Err"

\* the closing line carries a character after its hyphens, and the
\* instructions begin with it
C25_Witness ==
  /\ skill_args.op = "parse_full"
  /\ skill_args.lines = <<FrontmatterMark, <<"n">>, <<"-", "-", "-", "x">>, <<"b">>>>
  /\ skill_ret.res = "Ok"
  /\ skill_ret.yaml = <<"n">>
  /\ skill_ret.instructions = <<"x", "\n", "b">>

(***************************************************************************)
(* The search tools.  The tree is the files on disk in the order a walk or *)
(* a glob yields them; a file is its path, whether the enumeration yields  *)
(* it without error, whether it can be opened, its size in bytes, and for  *)
(* each of its lines whether the pattern of the call matches it.  A glob   *)
(* pattern is a path whose last component is a name, "*" or the malformed  *)
(* "[".                                                                    *)
(***************************************************************************)
\* most files on disk
MaxTreeLen == 3

\* lines 60, 61, 66
DEFAULT_MAX_GLOB_RESULTS == 500
DEFAULT_MAX_GREP_RESULTS == 200
MAX_GREP_FILE_BYTES == 2000000

FileEntry(path, listed, opens, len, lines) ==
  [path |-> path, listed |-> listed, opens |-> opens, len |-> len, lines |-> lines]

\* the returned text: the results joined by line ends
SearchOk(results) == [res |-> "Ok", text |-> "lines", lines |-> results]

\* glob::glob: Err for a malformed pattern, else the entries of the pattern's
\* directory whose name the last component matches, errors included
glob_valid(pattern) == pattern.comps # <<>> /\ pattern.comps[Len(pattern.comps)] # "["

glob(t, pattern) ==
  LET dir == pop(pattern.comps)
      name == pattern.comps[Len(pattern.comps)]
  IN SelectSeq(t, LAMBDA e : /\ e.path.abs = pattern.abs
                             /\ pop(e.path.comps) = dir
                             /\ name \in {"*", e.path.comps[Len(e.path.comps)]})

\* lines 3353-3364: the loop over the entries
RECURSIVE glob_loop(_, _, _, _)
glob_loop(entries, acc, max_results, results) ==
  IF entries = <<>> THEN results
  ELSE IF Len(results) >= max_results THEN results
  ELSE LET e == Head(entries)
       IN glob_loop(Tail(entries), acc, max_results,
            IF ~e.listed THEN results
            ELSE IF acc.mode = "whitelist" /\ ~path_is_allowed(acc, e.path) THEN results
            ELSE Append(results, e.path))

\* lines 3338-3371
glob_files_tool(acc, args, t) ==
  IF acc.mode = "unset" THEN ToolErr(TOOL_MODE_UNSET_ERROR)
  ELSE LET max_results == IF args.max_results = <<>> THEN DEFAULT_MAX_GLOB_RESULTS
                          ELSE args.max_results[1]
           pattern_path == join(acc.base_dir, args.pattern)
       IN IF ~glob_valid(pattern_path) THEN ToolErr("glob failed")
          ELSE LET results == glob_loop(glob(t, pattern_path), acc, max_results, <<>>)
               IN IF results = <<>> THEN ToolOk("nothing found")
                  ELSE SearchOk(results)

\* Path::is_file, Path::is_dir on the tree
is_file(t, path) == \E i \in DOMAIN t : t[i].path = path
is_dir(t, path) == ~is_file(t, path) /\ \E i \in DOMAIN t : starts_with(t[i].path, path)

\* Path::strip_prefix of a path under dir
strip_prefix(path, dir) ==
  PathStr(FALSE, SubSeq(path.comps, Len(dir.comps) + 1, Len(path.comps)))

\* glob::Pattern::matches_path with the default options: "*" matches any
\* text, separators included; a name matches itself
matches_path(pattern, path) ==
  \/ pattern.comps = <<"*">>
  \/ /\ pattern.abs = path.abs
     /\ pattern.comps = path.comps

\* glob::Pattern::new(pat).ok(): a malformed pattern gives no filter
filter_of(pat) == IF pat # <<>> /\ glob_valid(pat[1]) THEN pat ELSE <<>>

\* lines 3399-3411: the entries of the glob under each base directory
RECURSIVE glob_under(_, _, _)
glob_under(t, base_dirs, glob_pattern) ==
  IF base_dirs = <<>> THEN <<>>
  ELSE SelectSeq(glob(t, join(Head(base_dirs), glob_pattern)), LAMBDA e : e.listed)
       \o glob_under(t, Tail(base_dirs), glob_pattern)

\* lines 3378-3419: the files to search; path is the checked args.path
grep_files(acc, args, path, t) ==
  IF path # <<>>
  THEN LET filter == filter_of(args.glob)
       IN IF is_file(t, path[1])
          THEN SelectSeq(t, LAMBDA e : /\ e.path = path[1]
                                        /\ filter # <<>> => matches_path(filter[1], e.path))
          ELSE IF is_dir(t, path[1])
          THEN SelectSeq(t, LAMBDA e :
                 /\ e.listed
                 /\ starts_with(e.path, path[1])
                 /\ filter # <<>> => matches_path(filter[1], strip_prefix(e.path, path[1])))
          ELSE <<>>
  ELSE IF args.glob # <<>>
  THEN glob_under(t, IF acc.mode = "allow_all" THEN <<acc.base_dir>> ELSE acc.allowed_dirs,
                  args.glob[1])
  ELSE SelectSeq(t, LAMBDA e : e.listed /\ starts_with(e.path, acc.base_dir))

GrepLine(path, idx) == [path |-> path, idx |-> idx]

\* lines 3461-3469: the lines of one file
RECURSIVE grep_lines(_, _, _, _, _)
grep_lines(path, lines, idx, max_results, results) ==
  IF idx > Len(lines) \/ Len(results) >= max_results THEN results
  ELSE grep_lines(path, lines, idx + 1, max_results,
                  IF lines[idx] THEN Append(results, GrepLine(path, idx)) ELSE results)

\* lines 3446-3470: the loop over the files; <<>> when a file cannot be opened
RECURSIVE grep_loop(_, _, _, _)
grep_loop(files, acc, max_results, results) ==
  IF files = <<>> THEN <<results>>
  ELSE LET e == Head(files)
       IN IF acc.mode = "whitelist" /\ ~path_is_allowed(acc, e.path)
          THEN grep_loop(Tail(files), acc, max_results, results)
          ELSE IF Len(results) >= max_results THEN <<results>>
          ELSE IF e.len > MAX_GREP_FILE_BYTES
          THEN grep_loop(Tail(files), acc, max_results, results)
          ELSE IF ~e.opens THEN <<>>
          ELSE grep_loop(Tail(files), acc, max_results,
                         grep_lines(e.path, e.lines, 1, max_results, results))

\* lines 3373-3477
grep_files_tool(acc, args, t) ==
  IF acc.mode = "unset" THEN ToolErr(TOOL_MODE_UNSET_ERROR)
  ELSE LET max_results == IF args.max_results = <<>> THEN DEFAULT_MAX_GREP_RESULTS
                          ELSE args.max_results[1]
           checked == IF args.path = <<>> THEN PathOk(BlankStr)
                      ELSE ensure_path_allowed(acc, args.path[1])
       IN IF checked.res = "Err" THEN checked
          ELSE IF args.glob # <<>> /\ args.path = <<>> /\ ~glob_valid(args.glob[1])
          THEN ToolErr("glob failed")
          ELSE IF args.regex = <<TRUE>> /\ args.pattern = "("
          THEN ToolErr("regex failed")
          ELSE LET files == grep_files(acc, args,
                                       IF args.path = <<>> THEN <<>> ELSE <<checked.path>>, t)
                   found == grep_loop(files, acc, max_results, <<>>)
               IN IF found = <<>> THEN ToolErr("read failed")
                  ELSE IF found[1] = <<>> THEN ToolOk("nothing found")
                  ELSE SearchOk(found[1])

SearchModes == {"whitelist", "allow_all", "unset"}
\* the files' paths: the second is outside the allowed directory /a
TreeNames == <<"f", "h", "g", "k", "m", "n">>
TreePath(i) == PathStr(TRUE, <<IF i = 2 THEN "b" ELSE "a", TreeNames[i]>>)
\* what a file can be: not enumerable, not openable, over the size cap, or
\* some lines
FileKinds == {[listed |-> FALSE, opens |-> TRUE, len |-> 10, lines |-> <<TRUE>>],
              [listed |-> TRUE, opens |-> FALSE, len |-> 10, lines |-> <<TRUE>>],
              [listed |-> TRUE, opens |-> TRUE, len |-> MAX_GREP_FILE_BYTES + 1,
               lines |-> <<TRUE>>]}
             \cup {[listed |-> TRUE, opens |-> TRUE, len |-> 10, lines |-> ls] :
                   ls \in {<<>>, <<TRUE>>, <<FALSE, TRUE>>, <<TRUE, TRUE>>}}
Trees ==
  UNION {{[i \in 1..n |-> FileEntry(TreePath(i), ks[i].listed, ks[i].opens, ks[i].len,
                                    ks[i].lines)] : ks \in [1..n -> FileKinds]} :
         n \in 0..MaxTreeLen}
GlobPatterns == {PathStr(FALSE, <<"*">>), PathStr(FALSE, <<"f">>), PathStr(TRUE, <<"b", "*">>),
                 PathStr(FALSE, <<"[">>)}
SearchMaxes == {<<>>, <<0>>, <<1>>, <<2>>}
GrepPaths == {<<>>, <<PathStr(TRUE, <<"a">>)>>, <<PathStr(FALSE, <<"f">>)>>,
              <<PathStr(TRUE, <<"b">>)>>}
GrepGlobs == {<<>>, <<PathStr(FALSE, <<"*">>)>>, <<PathStr(FALSE, <<"f">>)>>,
              <<PathStr(FALSE, <<"[">>)>>}

\* the Glob tool is called
GlobFiles ==
  /\ UNCHANGED cvars
  /\ UNCHANGED hvars
  /\ UNCHANGED kvars
  /\ UNCHANGED rvars
  /\ \E pattern \in GlobPatterns, max_results \in SearchMaxes :
       LET args == [tool |-> "Glob", pattern |-> pattern, max_results |-> max_results]
       IN /\ tool_args' = args
          /\ tool_ret' = glob_files_tool(access, args, tree)
  /\ UNCHANGED <<access, file, g_file_before, g_written, g_wrote, ovars, gvars>>

\* the Grep tool is called
GrepFiles ==
  /\ UNCHANGED cvars
  /\ UNCHANGED hvars
  /\ UNCHANGED kvars
  /\ UNCHANGED rvars
  /\ \E pattern \in {"p", "("}, path \in GrepPaths, pat \in GrepGlobs,
        regex \in {<<>>, <<TRUE>>}, max_results \in SearchMaxes :
       LET args == [tool |-> "Grep", pattern |-> pattern, path |-> path, glob |-> pat,
                    regex |-> regex, max_results |-> max_results]
       IN /\ tool_args' = args
          /\ tool_ret' = grep_files_tool(access, args, tree)
  /\ UNCHANGED <<access, file, g_file_before, g_written, g_wrote, ovars, gvars>>

InitSearch ==
  /\ InitCommon
  /\ InitNoSkills
  /\ g_keep_context = FALSE
  /\ InitNoHistory
  /\ pc = "tool"
  /\ provider = "api"
  /\ mode = "unset"
  /\ total_candidates = 1
  /\ token_registered = FALSE
  /\ result = NoResult
  /\ \E m \in SearchModes :
       access = build_tool_access([mode |-> m, allowed_dirs |-> <<PathStr(TRUE, <<"a">>)>>,
                                   allowed_commands |-> <<>>], DataDir, <<>>)
  /\ tool_args = NoArgs
  /\ tool_ret = NoToolRet
  /\ file = NoFile
  /\ g_file_before = NoFile
  /\ g_written = NoFile
  /\ g_wrote = FALSE
  /\ tree \in Trees
  /\ timer = 0
  /\ InitRest

NextSearch ==
  \/ tool_args = NoArgs /\ GlobFiles
  \/ tool_args = NoArgs /\ GrepFiles

SpecSearch == InitSearch /\ [][NextSearch]_vars

\* the matches the latest search call has to report: the enumerated paths it
\* may show, or the matching lines of the files it may read
Found ==
  IF tool_args.tool = "Glob"
  THEN glob_loop(glob(tree, join(access.base_dir, tool_args.pattern)), access,
                 Len(tree) + 1, <<>>)
  ELSE LET checked == IF tool_args.path = <<>> THEN <<>>
                      ELSE <<resolve_path(access, tool_args.path[1])>>
           unbounded == grep_loop(grep_files(access, tool_args, checked, tree), access,
                                  Len(tree) * 2 + 1, <<>>)
       IN IF unbounded = <<>> THEN <<>> ELSE unbounded[1]

\* the cap of the latest search call
Cap ==
  IF tool_args.max_results # <<>> THEN tool_args.max_results[1]
  ELSE IF tool_args.tool = "Glob" THEN DEFAULT_MAX_GLOB_RESULTS
  ELSE DEFAULT_MAX_GREP_RESULTS

\* the latest call is a search that returned Ok
Searched == tool_args.tool \in {"Glob", "Grep"} /\ tool_ret.res = "Ok"

\* the lines of the returned text, "nothing found" having none
Returned == IF tool_ret.text = "lines" THEN tool_ret.lines ELSE <<>>

IsMatch(line) == \E i \in DOMAIN Found : Found[i] = line

\* C28: when Glob or Grep finds more matches than its cap, the text it returns
\* lists exactly cap of them and has a line that is not a match, saying that
\* the list was cut.
C28_TruncationIsMarked ==
  (Searched /\ Len(Found) > Cap) =>
    /\ Len(SelectSeq(Returned, IsMatch)) = Cap
    /\ \E i \in DOMAIN Returned : ~IsMatch(Returned[i])

\* what the code does: the first cap matches and nothing else
C28_CutAtCap ==
  (Searched /\ Len(Found) > Cap) => Returned = SubSeq(Found, 1, Cap)

(***************************************************************************)
(* The timeout of a foreground command.  A command is a text whose units   *)
(* are single characters and the words agent-browser, Agent-Browser and    *)
(* start.                                                                  *)
(***************************************************************************)
\* longest command, in units
MaxWords == 3

\* lines 62-64
DEFAULT_COMMAND_TIMEOUT_MS == 120000
DEFAULT_AGENT_BROWSER_TIMEOUT_MS == 20000
MAX_COMMAND_TIMEOUT_MS == 900000

\* lines 3266-3273
default_timeout_for_command(command) ==
  LET lower == to_lowercase(trim_start(command))
  IN IF str_starts_with(lower, <<"agent-browser", " ">>)
     THEN DEFAULT_AGENT_BROWSER_TIMEOUT_MS
     ELSE DEFAULT_COMMAND_TIMEOUT_MS

\* lines 3497-3501
timeout_ms(args) ==
  Max(Min(IF args.timeout_ms = <<>> THEN default_timeout_for_command(args.command)
          ELSE args.timeout_ms[1],
          MAX_COMMAND_TIMEOUT_MS),
      1000)

\* command_requests_background (lines 3239-3250) on a command text; of the
\* launcher prefixes the texts have "start "
wants_background(command) ==
  LET trimmed == trim(command)
  IN \/ trimmed # <<>> /\ trimmed[Len(trimmed)] = "&"
     \/ str_starts_with(to_lowercase(trimmed), <<"start", " ">>)

CommandUnits == {"agent-browser", "Agent-Browser", "start", " ", "g", "&"}
TimedCommands == SeqsUpTo(CommandUnits, MaxWords)
TimeoutArgs == {<<>>, <<0>>, <<5000>>, <<MAX_COMMAND_TIMEOUT_MS>>, <<MAX_COMMAND_TIMEOUT_MS + 1>>}

kvars_but_timer == <<skills_dir, skill_args, skill_ret, g_fs_calls, g_skills_before,
                     skills_version, skills_cache, requests, qvars, tree, nvars>>
ovars_but_processes ==
  <<site, phase, provider, mode, total_candidates, cand, attempt, result,
    loops, last_tool_calls, repeat_loops, call_idx, tool_results, ret,
    combined, outcome, token_registered, cancelled, effects>>

TimeoutStatic == <<cvars, hvars, rvars, gvars, kvars_but_timer, ovars_but_processes,
                   access, file, g_file_before, g_written, g_wrote>>

\* run_command_tool lines 3479-3534: the checks, then the background spawn
\* or the foreground child under its timeout
BashStart ==
  /\ UNCHANGED TimeoutStatic
  /\ pc = "tool"
  /\ \E command \in TimedCommands, t \in TimeoutArgs :
       LET args == [tool |-> "Bash", command |-> command, cwd |-> <<>>, timeout_ms |-> t]
           refused == \A r \in run_command_tool(access, args) : ~r.started
       IN /\ tool_args' = args
          /\ IF refused
             THEN /\ tool_ret' \in run_command_tool(access, args)
                  /\ UNCHANGED <<pc, fg_running, bg_running, timer>>
             ELSE IF wants_background(command)
             THEN \/ /\ tool_ret' = CmdRet("Ok", "running in background", TRUE)
                     /\ bg_running' = bg_running + 1
                     /\ UNCHANGED <<pc, fg_running, timer>>
                  \/ /\ tool_ret' = CmdRet("Err", "start background command failed", FALSE)
                     /\ UNCHANGED <<pc, fg_running, bg_running, timer>>
             ELSE \/ /\ tool_ret' = CmdRet("Err", "spawn failed", FALSE)
                     /\ UNCHANGED <<pc, fg_running, bg_running, timer>>
                  \/ /\ pc' = "tool_run"
                     /\ fg_running' = 1
                     /\ timer' = timeout_ms(args)
                     /\ UNCHANGED <<tool_ret, bg_running>>
  /\ UNCHANGED orphans

\* lines 3535-3563: the child exits before the timeout fires
BashExit ==
  /\ UNCHANGED TimeoutStatic
  /\ pc = "tool_run"
  /\ pc' = "tool"
  /\ tool_ret' = CmdRet("Ok", "exit_code: ...", TRUE)
  /\ fg_running' = 0
  /\ timer' = 0
  /\ UNCHANGED <<tool_args, orphans, bg_running>>

\* lines 3535-3537: the timeout fires; the future of cmd.output() is dropped,
\* and the Command was built without kill_on_drop (3580-3584), so the child
\* is not killed
BashTimeout ==
  /\ UNCHANGED TimeoutStatic
  /\ pc = "tool_run"
  /\ pc' = "tool"
  /\ tool_ret' = CmdRet("Err", "command timed out", TRUE)
  /\ fg_running' = 0
  /\ orphans' = orphans \cup {"timeout"}
  /\ timer' = 0
  /\ UNCHANGED <<tool_args, bg_running>>

InitTimeout ==
  /\ InitCommon
  /\ InitNoSkills
  /\ g_keep_context = FALSE
  /\ InitNoHistory
  /\ pc = "tool"
  /\ provider = "api"
  /\ mode = "unset"
  /\ total_candidates = 1
  /\ token_registered = FALSE
  /\ result = NoResult
  /\ \E m \in CmdModes, cmds \in {<<>>, <<<<"*">>>>, <<<<"g">>>>} :
       access = build_tool_access([mode |-> m, allowed_dirs |-> <<>>,
                                   allowed_commands |-> cmds], DataDir, <<>>)
  /\ tool_args = NoArgs
  /\ tool_ret = NoToolRet
  /\ file = NoFile
  /\ g_file_before = NoFile
  /\ g_written = NoFile
  /\ g_wrote = FALSE
  /\ tree = NoTree
  /\ timer = 0
  /\ InitRest

NextTimeout ==
  \/ tool_args = NoArgs /\ BashStart
  \/ BashExit
  \/ BashTimeout

SpecTimeout == InitTimeout /\ [][NextTimeout]_vars

\* the latest Bash call returned the timeout failure
TimedOut == tool_args.tool = "Bash" /\ tool_ret = CmdRet("Err", "command timed out", TRUE)

\* C29: the child of a Bash command is awaited under a timeout of 120 s when
\* the call names none, and of at most 15 minutes whatever it names; a call
\* that returned the timeout failure has left no child running.
C29_TimeoutEndsTheCommand ==
  /\ pc = "tool_run" =>
       /\ tool_args.timeout_ms = <<>> => timer = 120000
       /\ timer <= 15 * 60 * 1000
  /\ TimedOut => (fg_running = 0 /\ orphans = {})

\* what holds of the timeout: never above the upper bound
C29_TimeoutClamped ==
  pc = "tool_run" => (timer >= 1000 /\ timer <= MAX_COMMAND_TIMEOUT_MS)

\* ---------------------------------------------------------------------------
\* The tool loops of one request: the main loop, the follow-up, nested skills
\* ---------------------------------------------------------------------------

\* skills a skill's loop is let call into, one inside the other
MaxNesting == 2

\* one run_tool_loop call: `let mut loops = 0usize` is local to the call
Frame(kind) == [kind |-> kind, loops |-> 0]

\* the scripts of the model: after how many rounds of a loop it may answer
\* with text, and in which round of a loop it may call invoke_skill
TextAfter == {0, MAX_TOOL_LOOPS - 1}
InvokeIn == {0}

NestedStatic == <<ovars, gvars, tvars, rvars, hvars, cvars, skills_dir, skill_args,
                  skill_ret, g_fs_calls, g_skills_before, skills_version,
                  skills_cache, requests, qvars, tree, timer, wvars, mvars, dvars>>

TopFrame == frames[Len(frames)]
OuterFrames == SubSeq(frames, 1, Len(frames) - 1)
WithLoops(f, n) == [f EXCEPT !.loops = n]

\* chat_with_assistant hands the first response to run_tool_loop
NestedStart ==
  /\ UNCHANGED NestedStatic
  /\ frames = <<>>
  /\ g_loops_run = 0
  /\ frames' = <<Frame("main")>>
  /\ g_loops_run' = 1
  /\ UNCHANGED g_total_rounds

\* a ToolCalls response under the cap: the calls of the round are executed.
\* A call of invoke_skill runs execute_skill_internal, which asks the model
\* and hands its response to a run_tool_loop call of its own; the round of
\* the calling loop ends when that returns.
NestedRound(tool) ==
  /\ UNCHANGED NestedStatic
  /\ frames # <<>>
  /\ ~RoundCapReached(TopFrame.loops)
  /\ g_total_rounds' = g_total_rounds + 1
  /\ IF tool = "invoke_skill"
       THEN /\ Len(frames) <= MaxNesting
            /\ TopFrame.loops \in InvokeIn
            /\ frames' = Append(frames, Frame("skill"))
            /\ g_loops_run' = g_loops_run + 1
       ELSE /\ frames' = Append(OuterFrames, WithLoops(TopFrame, TopFrame.loops + 1))
            /\ UNCHANGED g_loops_run

\* the loop on top returns to its caller: the calling loop's round is over,
\* the main loop's text is followed up once when it looks incomplete
LoopReturns(followup) ==
  /\ IF TopFrame.kind = "skill"
       THEN frames' = Append(SubSeq(OuterFrames, 1, Len(OuterFrames) - 1),
                             WithLoops(OuterFrames[Len(OuterFrames)], OuterFrames[Len(OuterFrames)].loops + 1))
       ELSE IF TopFrame.kind = "main" /\ followup
         THEN frames' = <<Frame("followup")>>
         ELSE frames' = <<>>
  /\ g_loops_run' = IF TopFrame.kind = "main" /\ followup
                      THEN g_loops_run + 1 ELSE g_loops_run
  /\ UNCHANGED g_total_rounds

\* a Text response ends the loop with that text
NestedText(incomplete) ==
  /\ UNCHANGED NestedStatic
  /\ frames # <<>>
  /\ TopFrame.loops \in TextAfter
  /\ LoopReturns(FollowUpWanted(OkRet("text", incomplete)))

\* a ToolCalls response at the cap ends the loop with the cap message
NestedCap ==
  /\ UNCHANGED NestedStatic
  /\ frames # <<>>
  /\ RoundCapReached(TopFrame.loops)
  /\ LoopReturns(FALSE)

InitNested ==
  /\ InitCommon
  /\ InitNoSkills
  /\ g_keep_context = FALSE
  /\ InitNoHistory
  /\ InitNoTool
  /\ pc = "start"
  /\ provider = "api"
  /\ mode = "allow_all"
  /\ total_candidates = 1
  /\ token_registered = FALSE
  /\ result = NoResult

NextNested ==
  \/ NestedStart
  \/ \E tool \in {"progress_update", "invoke_skill"} : NestedRound(tool)
  \/ \E incomplete \in BOOLEAN : NestedText(incomplete)
  \/ NestedCap

SpecNested == InitNested /\ [][NextNested]_vars

\* C32: the rounds of tool execution of one request, those of the main loop,
\* of the follow-up and of the loops of nested invoke_skill calls counted
\* together, never exceed MAX_TOOL_LOOPS.
C32_TotalRoundsCapped == g_total_rounds <= MAX_TOOL_LOOPS

\* C32 as the code has it: every run of the loop executes at most
\* MAX_TOOL_LOOPS rounds, so a request executes at most MAX_TOOL_LOOPS rounds
\* for each loop it runs.
C32_EachLoopCapped ==
  /\ \A i \in 1..Len(frames) : frames[i].loops <= MAX_TOOL_LOOPS
  /\ g_total_rounds <= MAX_TOOL_LOOPS * g_loops_run

\* a request over, its main loop and its follow-up both run to the cap
C32_Witness ==
  /\ frames = <<>>
  /\ g_loops_run = 2
  /\ g_total_rounds = (MAX_TOOL_LOOPS - 1) + MAX_TOOL_LOOPS

\* ---------------------------------------------------------------------------
\* The tools a skill is allowed
\* ---------------------------------------------------------------------------

\* A tool name is one unit of text, as the words of a command are.

\* lines 3032-3038
normalize_tool_name(name) ==
  LET lower == to_lowercase(trim(name))
  IN IF lower = <<"update">> THEN <<"edit">>
     ELSE IF lower = <<"run_command">> THEN <<"bash">>
     ELSE lower

\* lines 2949-2969; split('(').next() is the text before the first "("
tool_allowed_in_skill(tool_name, allowed_tools) ==
  IF allowed_tools = {} THEN TRUE
  ELSE LET list == Unwrap(allowed_tools)
       IN /\ list # <<>>
          /\ \E i \in 1..Len(list) :
               LET trimmed == trim(list[i])
               IN \/ trimmed = <<"*">>
                  \/ normalize_tool_name(trim(split(trimmed, {"("})[1]))
                       = normalize_tool_name(tool_name)

\* execute_tool_call, lines 4021-4024
needs_skill_permission(tool_name) ==
  tool_name \in {"Read", "Write", "Edit", "Update", "Glob", "Grep", "Bash", "run_command"}

\* execute_tool_call, lines 4025-4027: the call is let through to its tool
passes_skill_check(tool_name, allowed_tools) ==
  ~(needs_skill_permission(tool_name) /\ ~tool_allowed_in_skill(<<tool_name>>, allowed_tools))

\* the arms of the match in execute_tool_call (lines 4029-4206); any other
\* name is answered with "unknown tool"
KnownTools ==
  {"Read", "Write", "Edit", "Update", "Glob", "Grep", "Bash", "run_command",
   "invoke_skill", "manage_skill", "progress_update"}

\* str::replace(['-', '_'], "")
without_dashes(text) ==
  LET kept == SelectSeq(text, LAMBDA u : u \notin {"-", "_"})
  IN [i \in 1..Len(kept) |-> CASE kept[i] = "run_command" -> "runcommand"
                               [] kept[i] = "invoke_skill" -> "invokeskill"
                               [] kept[i] = "manage_skill" -> "manageskill"
                               [] kept[i] = "progress_update" -> "progressupdate"
                               [] OTHER -> kept[i]]

\* create_skill_tools, api.rs lines 999-1015: is the tool among those the
\* model is told about
is_tool_allowed(name, allowed_tools) ==
  IF allowed_tools = {} THEN TRUE
  ELSE LET list == Unwrap(allowed_tools)
           target == to_lowercase(<<name>>)
       IN /\ list # <<>>
          /\ \E i \in 1..Len(list) :
               LET trimmed == trim(list[i])
                   normalized == without_dashes(to_lowercase(trimmed))
               IN \/ trimmed = <<"*">>
                  \/ normalized = target
                  \/ normalized = without_dashes(target)

\* create_skill_tools for the model calls of a skill run, which pass no
\* available skills (mod.rs line 1351): invoke_skill is left out (api.rs
\* line 1250), and so is every name that is no tool
offered_in_skill(name, allowed_tools) ==
  /\ name \in KnownTools \ {"invoke_skill"}
  /\ is_tool_allowed(name, allowed_tools)

\* what a front matter can say under allowed-tools: nothing, a list, a string
AllowedEntries ==
  {<<"Read">>, <<" ", "Bash">>, <<"Bash", "(", "g", ")">>, <<"Edit">>, <<"*">>,
   <<"manage_skill">>, <<" ">>}
SkillFields ==
  {{}} \cup {Some(AllowedList(list)) : list \in SeqsUpTo(AllowedEntries, 2)}
       \cup {Some(AllowedText(<<>>)), Some(AllowedText(<<"Read", ",", " ", "run_command">>))}
CalledTools == KnownTools \cup {"other"}

NoInner == [field |-> {}, tool |-> "none"]

\* One tool call of the model during a run of a skill whose front matter
\* has `field` under allowed-tools: execute_skill_internal takes the skill's
\* parsed allowed_tools (mod.rs line 1357) and run_tool_loop hands them to
\* execute_tool_call. A call of invoke_skill that is let through runs the
\* skill it names with that skill's own allowed_tools (lines 4092-4117);
\* `inner` is that skill's field and a tool call of the model inside it.
SkillToolCall ==
  /\ UNCHANGED <<ovars, gvars, tvars, rvars, hvars, cvars, avars>>
  /\ UNCHANGED <<skills_dir, g_fs_calls, g_skills_before>>
  /\ \E field \in SkillFields, tool \in CalledTools :
       LET allowed_tools == parse_allowed_tools(field)
           through == passes_skill_check(tool, allowed_tools)
       IN \E inner \in IF tool = "invoke_skill" /\ through
                       THEN [field : SkillFields, tool : CalledTools \ {"invoke_skill"}]
                       ELSE {NoInner} :
            /\ skill_args' = [op |-> "skill_tool", field |-> field, tool |-> tool,
                              inner |-> inner]
            /\ skill_ret' =
                 [res |-> "Ok",
                  allowed_tools |-> allowed_tools,
                  offered |-> offered_in_skill(tool, allowed_tools),
                  executed |-> through /\ tool \in KnownTools,
                  inner_executed |->
                    /\ inner # NoInner
                    /\ inner.tool \in KnownTools
                    /\ passes_skill_check(inner.tool, parse_allowed_tools(inner.field))]

InitAllowed == InitParser

NextAllowed == skill_args = NoSkillArgs /\ SkillToolCall

SpecAllowed == InitAllowed /\ [][NextAllowed]_vars

SkillToolCalled == skill_args.op = "skill_tool"

\* the front matter has an allowed-tools entry that names no tool
DeclaresNoTool ==
  /\ skill_args.field # {}
  /\ LET v == Unwrap(skill_args.field)
     IN IF v.kind = "List" THEN v.list = <<>> ELSE v.text = <<>>

\* C33: a skill whose front matter declares an empty allowed-tools list runs
\* with every tool call refused; a skill without an allowed-tools entry runs
\* unrestricted.
C33_EmptyListAllowsNothing ==
  SkillToolCalled =>
    /\ DeclaresNoTool => ~skill_ret.executed
    /\ skill_args.field = {} => skill_ret.executed = (skill_args.tool \in KnownTools)

\* what holds: without an allowed-tools entry every known tool is executed,
\* and an empty allowed-tools entry is read as no entry
C33_EmptyIsAbsent ==
  SkillToolCalled =>
    /\ skill_args.field = {} => skill_ret.executed = (skill_args.tool \in KnownTools)
    /\ DeclaresNoTool => skill_ret.allowed_tools = {}

\* the skill runs under a list of allowed tools
Restricted == SkillToolCalled /\ skill_ret.allowed_tools # {}

\* C34: in a skill run under a declared allowed_tools list no tool outside
\* the list is executed, manage_skill, invoke_skill and progress_update
\* included, neither by the run itself nor by a skill it invokes.
C34_OnlyAllowedToolsRun ==
  Restricted =>
    /\ skill_ret.executed =>
         tool_allowed_in_skill(<<skill_args.tool>>, skill_ret.allowed_tools)
    /\ skill_ret.inner_executed =>
         tool_allowed_in_skill(<<skill_args.inner.tool>>, skill_ret.allowed_tools)

\* what holds: of the file and command tools, none outside the list is
\* executed by the run itself
C34_FileAndCommandToolsChecked ==
  (Restricted /\ needs_skill_permission(skill_args.tool) /\ skill_ret.executed)
    => tool_allowed_in_skill(<<skill_args.tool>>, skill_ret.allowed_tools)

\* ---------------------------------------------------------------------------
\* The front matter an update writes
\* ---------------------------------------------------------------------------

\* SkillMetadata as parse_metadata fills it (parser.rs lines 37-46), without
\* name and description, which every update supplies
Metadata(allowed_tools, model, context, user_invocable, disable_model_invocation, metadata) ==
  [allowed_tools |-> allowed_tools, model |-> model, context |-> context,
   user_invocable |-> user_invocable,
   disable_model_invocation |-> disable_model_invocation, metadata |-> metadata]

\* SkillFrontmatterOverrides (skills/mod.rs lines 99-106)
Overrides(allowed_tools, model, context, user_invocable, metadata) ==
  [allowed_tools |-> allowed_tools, model |-> model, context |-> context,
   user_invocable |-> user_invocable, metadata |-> metadata]

\* skills/mod.rs lines 368-383
RECURSIVE yaml_escape(_)
yaml_escape(text) ==
  IF text = <<>> THEN <<>>
  ELSE (CASE Head(text) = "\\" -> <<"\\", "\\">>
          [] Head(text) = "\"" -> <<"\\", "\"">>
          [] Head(text) = "\n" -> <<"\\", "n">>
          [] Head(text) = "\r" -> <<"\\", "r">>
          [] Head(text) = "\t" -> <<"\\", "t">>
          [] OTHER -> <<Head(text)>>)
       \o yaml_escape(Tail(text))
yaml_quote(value) == <<"\"">> \o yaml_escape(value) \o <<"\"">>

\* the YAML reader on a double-quoted scalar: the text between the quotes with
\* its escapes undone
RECURSIVE yaml_unescape(_)
yaml_unescape(text) ==
  IF text = <<>> THEN <<>>
  ELSE IF Head(text) = "\\" /\ Len(text) >= 2
  THEN <<CASE text[2] = "n" -> "\n"
           [] text[2] = "r" -> "\r"
           [] text[2] = "t" -> "\t"
           [] OTHER -> text[2]>> \o yaml_unescape(SubSeq(text, 3, Len(text)))
  ELSE <<Head(text)>> \o yaml_unescape(Tail(text))
yaml_scalar(quoted) == yaml_unescape(SubSeq(quoted, 2, Len(quoted) - 1))

\* Option::or_else
or_else(first, second) == IF first # {} THEN first ELSE second

\* the values of the lines build_skill_frontmatter writes after name and
\* description (skills/mod.rs lines 387-445): a field without a line is {}
build_skill_frontmatter(existing, overrides) ==
  LET old(f) == IF existing = {} THEN {} ELSE Unwrap(existing)[f]
      allowed_tools == or_else(overrides.allowed_tools, old("allowed_tools"))
      cleaned == IF allowed_tools = {} THEN <<>> ELSE push_trimmed(Unwrap(allowed_tools))
      model == or_else(overrides.model, old("model"))
      context == or_else(overrides.context, old("context"))
      user_invocable == or_else(overrides.user_invocable, old("user_invocable"))
      metadata == or_else(overrides.metadata, old("metadata"))
      line(t) == IF t = {} \/ trim(Unwrap(t)) = <<>> THEN {}
                 ELSE Some(yaml_quote(trim(Unwrap(t))))
  IN [allowed_tools |->
        IF cleaned = <<>> THEN {}
        ELSE Some(yaml_quote(Joined(cleaned, [i \in 1..(Len(cleaned) - 1) |-> <<",", " ">>]))),
      model |-> line(model),
      context |-> line(context),
      user_invocable |-> user_invocable,
      metadata |->
        IF metadata = {} \/ Unwrap(metadata) = {} THEN {}
        ELSE Some({<<yaml_quote(kv[1]), yaml_quote(kv[2])>> : kv \in Unwrap(metadata)})]

\* parse_metadata (parser.rs lines 31-47) on the front matter as written
reparsed(written) ==
  LET read(t) == IF t = {} THEN {} ELSE Some(yaml_scalar(Unwrap(t)))
  IN Metadata(
       parse_allowed_tools(IF written.allowed_tools = {} THEN {}
                           ELSE Some(AllowedText(yaml_scalar(Unwrap(written.allowed_tools))))),
       read(written.model),
       read(written.context),
       written.user_invocable,
       {},
       IF written.metadata = {} THEN {}
       ELSE Some({<<yaml_scalar(kv[1]), yaml_scalar(kv[2])>> : kv \in Unwrap(written.metadata)}))

\* metadata files as they are parsed, and overrides
OldTools == {{}, Some(<<<<"Read">>>>), Some(<<<<"Read">>, <<"Edit">>>>),
             Some(<<<<"Bash", "(", "g", " ", "s", ")">>>>)}
OldTexts == {{}, Some(<<"m">>), Some(<<" ", "m">>), Some(<<>>)}
Flags == {{}, {TRUE}, {FALSE}}
OldMaps == {{}, Some({}), Some({<<<<"k">>, <<"v", "\"">>>>})}
Metadatas ==
  {Metadata(t, m, c, u, d, x) :
     t \in OldTools, m \in OldTexts, c \in {{}, Some(<<"screen">>)},
     u \in Flags, d \in Flags, x \in OldMaps}
OverridesGiven ==
  {Overrides(t, m, c, u, x) :
     t \in {{}, Some(<<<<"Write">>>>)}, m \in {{}, Some(<<"n">>)},
     c \in {{}, Some(<<"none">>)}, u \in {{}, {FALSE}},
     x \in {{}, Some({<<<<"k">>, <<"w">>>>})}}

\* update_skill_with_meta (skills/mod.rs lines 256-286) on a skill whose
\* definition file parses to `existing`, or does not parse ({}): the front
\* matter it writes, and the metadata read from the file afterwards
UpdateFrontmatter ==
  /\ UNCHANGED <<ovars, gvars, tvars, rvars, hvars, cvars, avars>>
  /\ UNCHANGED <<skills_dir, g_fs_calls, g_skills_before>>
  /\ \E existing \in {{}} \cup {Some(m) : m \in Metadatas}, overrides \in OverridesGiven :
       LET written == build_skill_frontmatter(existing, overrides)
       IN /\ skill_args' = [op |-> "frontmatter", existing |-> existing,
                            overrides |-> overrides]
          /\ skill_ret' = [res |-> "Ok", written |-> written, after |-> reparsed(written)]

InitFrontmatter == InitParser

NextFrontmatter == skill_args = NoSkillArgs /\ UpdateFrontmatter

SpecFrontmatter == InitFrontmatter /\ [][NextFrontmatter]_vars

\* an update of a skill whose definition file parsed
Updated == skill_args.op = "frontmatter" /\ skill_args.existing # {}
Before == Unwrap(skill_args.existing)

\* C35: an update changes only the supplied fields: allowed tools, model,
\* context mode, the invocability flags and metadata each keep the value
\* they had before when the update gives no override for them.
C35_UnsuppliedFieldsKept ==
  Updated =>
    /\ \A f \in {"allowed_tools", "model", "context", "user_invocable", "metadata"} :
         skill_args.overrides[f] = {} => skill_ret.after[f] = Before[f]
    /\ skill_ret.after.disable_model_invocation = Before.disable_model_invocation

\* what holds: a supplied field takes the override, user_invocable without
\* an override is kept, and a model or context without an override is kept
\* up to blanks around it
C35_OverridesWin ==
  Updated =>
    /\ skill_args.overrides.user_invocable = {} =>
         skill_ret.after.user_invocable = Before.user_invocable
    /\ \A f \in {"model", "context"} :
         /\ skill_args.overrides[f] # {} => skill_ret.after[f] = skill_args.overrides[f]
         /\ (skill_args.overrides[f] = {} /\ Before[f] # {} /\ trim(Unwrap(Before[f])) # <<>>)
              => skill_ret.after[f] = Some(trim(Unwrap(Before[f])))
    /\ skill_args.overrides.allowed_tools # {} =>
         skill_ret.after.allowed_tools = skill_args.overrides.allowed_tools
    /\ skill_args.overrides.metadata # {} =>
         skill_ret.after.metadata = skill_args.overrides.metadata

\* ---------------------------------------------------------------------------
\* The watcher of the skills directory and the version counter
\* ---------------------------------------------------------------------------

MaxClock == 6000
DEBOUNCE_MS == 250

\* kinds of notify events, and a failed notification
EventKinds == {"Create", "Modify", "Remove", "Any", "Access", "Other", "Err"}
Elapses == {100, 250}

WatcherStatic == <<ovars, gvars, tvars, rvars, hvars, cvars, skills_dir, skill_args,
                   skill_ret, g_fs_calls, g_skills_before, skills_cache, requests,
                   qvars, tree, timer, frames, g_total_rounds, g_loops_run, mvars,
                   dvars>>

\* skills/mod.rs lines 485-493
is_change(kind) == kind \in {"Create", "Modify", "Remove", "Any"}

\* skills/mod.rs line 497: the event falls within the window after the last
\* one passed on
debounced(now, last) == now - last < DEBOUNCE_MS

\* mutant: the counter is left as it is
fetch_add_Nothing(v, n) == v

\* AtomicU64::fetch_add as the callback of lib.rs lines 71-73 calls it
fetch_add(v, n) == v + n

FileEvent(kind, version_at, at, passed) ==
  [kind |-> kind, version_at |-> version_at, at |-> at, passed |-> passed]

\* The watcher's closure on one notification (skills/mod.rs lines 477-505).
\* The closure of this source tree ends by emitting "skills-changed"; the
\* on_changed callback that lib.rs hands to start_skills_watcher is called
\* where the change is passed on, after the debounce test.
WatcherEvent(kind) ==
  /\ UNCHANGED WatcherStatic
  /\ UNCHANGED clock
  /\ IF ~is_change(kind)
       THEN UNCHANGED <<last_emit_at, skills_version, g_event>>
       ELSE IF debounced(clock, last_emit_at)
         THEN /\ g_event' = FileEvent(kind, skills_version, clock, FALSE)
              /\ UNCHANGED <<last_emit_at, skills_version>>
         ELSE /\ g_event' = FileEvent(kind, skills_version, clock, TRUE)
              /\ last_emit_at' = clock
              /\ skills_version' = fetch_add(skills_version, 1)

\* time passes
Elapse(ms) ==
  /\ UNCHANGED WatcherStatic
  /\ clock + ms <= MaxClock
  /\ clock' = clock + ms
  /\ UNCHANGED <<last_emit_at, skills_version, g_event>>

InitWatcher == InitParser

NextWatcher ==
  \/ \E kind \in EventKinds : WatcherEvent(kind)
  \/ \E ms \in Elapses : Elapse(ms)

SpecWatcher == InitWatcher /\ [][NextWatcher]_vars

EventSeen == g_event # NoEvent
WindowPassed == EventSeen /\ clock - g_event.at >= DEBOUNCE_MS

MaxMalformedRounds == 4

MalformedRounds ==
  {<<BadJson>>, <<ReadNoPath>>, <<ReadWrongType>>, <<ReadUnknownField>>,
   <<ProgressNoMessage>>, <<ReadA>>}
MalformedResponses == {TextResp(FALSE)} \cup {ToolResp(cs) : cs \in MalformedRounds}

\* run_tool_loop alone, the model asking for rounds of one call each
InitMalformed ==
  /\ InitCommon
  /\ InitNoSkills
  /\ InitNoTool
  /\ InitNoHistory
  /\ g_keep_context = FALSE
  /\ pc = "loop_top"
  /\ provider = "api"
  /\ mode \in Modes
  /\ total_candidates = 1
  /\ token_registered = TRUE
  /\ result \in MalformedResponses

NextMalformed ==
  \/ LoopTop
  \/ ToolStart
  \/ ModelOk(MalformedResponses, MaxMalformedRounds + 1)

SpecMalformed == InitMalformed /\ [][NextMalformed]_vars

\* the round of the latest tool-call response is over: its results are about
\* to be sent to the model, or the repeat-failure detector has ended the loop
RoundOver ==
  /\ result.kind = "ToolCalls"
  /\ Len(tool_results) = Len(result.calls)
  /\ \/ pc = "model" /\ site = "cont"
     \/ pc = "loop_ret" /\ ret = OkRet("repeat", FALSE)

\* the loop returned an error, which ends the request
EndedInError == pc = "loop_ret" /\ ret.status = "Err"

\* the call that was being executed when the loop returned an error
RunningCall == result.calls[call_idx]

\* every call of such a round has a tagged failure as its result, and the
\* repeat-failure detector has counted the round
FailureGivenBack ==
  /\ \A i \in 1..Len(tool_results) : tool_results[i].head = TOOL_ERROR_PREFIX
  /\ has_failure(tool_results)
  /\ g_streak = g_run
  /\ repeat_loops = g_run - 1

MaxRefusedRounds == 5

RefusedRounds == {<<BashDenied>>, <<BashOutside>>, <<BadJson>>, <<ReadA>>}
RefusedResponses == {TextResp(FALSE)} \cup {ToolResp(cs) : cs \in RefusedRounds}

\* run_tool_loop alone under a whitelist
InitRefused ==
  /\ InitCommon
  /\ InitNoSkills
  /\ InitNoTool
  /\ InitNoHistory
  /\ g_keep_context = FALSE
  /\ pc = "loop_top"
  /\ provider = "api"
  /\ mode = "whitelist"
  /\ total_candidates = 1
  /\ token_registered = TRUE
  /\ result \in RefusedResponses

NextRefused ==
  \/ LoopTop
  \/ ToolStart
  \/ ModelOk(RefusedResponses, MaxRefusedRounds + 1)

SpecRefused == InitRefused /\ [][NextRefused]_vars

\* the round just over was at least the fourth in a row with the same call
FourthInARow == RoundOver /\ g_run = MAX_REPEAT_TOOL_LOOPS + 1

StoppedByRepeatCap == pc = "loop_ret" /\ ret = OkRet("repeat", FALSE)

\* C38: a model that keeps issuing the identical Bash call that the sandbox
\* refuses is stopped by the repeat-failure cap after as many rounds as with
\* any other identical call that keeps failing.
C38_RefusedCallsStopped ==
  (FourthInARow /\ result.calls[1] \in {BashDenied, BashOutside, BadJson})
    => StoppedByRepeatCap

\* what holds: a call that keeps failing is stopped at its fourth round, and
\* a refused Bash call is never counted
C38_RefusalsNotCounted ==
  /\ (FourthInARow /\ result.calls[1] = BadJson) => StoppedByRepeatCap
  /\ (RoundOver /\ result.calls[1] \in {BashDenied, BashOutside})
       => (repeat_loops = 0 /\ ~has_failure(tool_results) /\ ~StoppedByRepeatCap)

\* ---------------------------------------------------------------------------
\* The capture manager
\* ---------------------------------------------------------------------------

\* calls of start() that find the manager stopped
MaxStarts == 2
MaxRecords == 1

CaptureStatic == <<ovars, gvars, tvars, rvars, hvars, cvars, skills_dir, skill_args,
                   skill_ret, g_fs_calls, g_skills_before, skills_version,
                   skills_cache, requests, qvars, tree, timer, frames,
                   g_total_rounds, g_loops_run, wvars, dvars>>

\* CaptureManager::start (capture/mod.rs lines 52-116) up to and including
\* tokio::spawn: nothing when is_running is set; otherwise a new stop channel,
\* the flag set, and a loop spawned that waits in its select!
CaptureStart ==
  /\ UNCHANGED CaptureStatic
  /\ Len(capture_tasks) < MaxStarts
  /\ IF is_running
       THEN UNCHANGED mvars
       ELSE /\ stop_tx' = {Len(capture_tasks) + 1}
            /\ is_running' = TRUE
            /\ capture_tasks' = Append(capture_tasks, "select")
            /\ stop_channels' = Append(stop_channels, 0)
            /\ g_calls' = Append(g_calls, "start")
            /\ UNCHANGED record_count

\* CaptureManager::stop (lines 118-123): the flag cleared, the sender taken
\* and a message sent on it; the channel holds one message and gets one
CaptureStop ==
  /\ UNCHANGED CaptureStatic
  /\ Len(g_calls) < 2 * MaxStarts
  /\ is_running' = FALSE
  /\ stop_tx' = {}
  /\ stop_channels' = IF stop_tx = {} THEN stop_channels
                      ELSE [stop_channels EXCEPT ![Unwrap(stop_tx)] = 1]
  /\ g_calls' = Append(g_calls, "stop")
  /\ UNCHANGED <<capture_tasks, record_count>>

\* the tick branch of select! (lines 76-79): the loop leaves when the flag is
\* clear, and captures otherwise
CaptureTick(t) ==
  /\ UNCHANGED CaptureStatic
  /\ capture_tasks[t] = "select"
  /\ capture_tasks' = [capture_tasks EXCEPT ![t] = IF is_running THEN "capture" ELSE "leave"]
  /\ UNCHANGED <<is_running, stop_tx, stop_channels, record_count, g_calls>>

\* capture_and_analyze_with_diff returns (lines 81-103)
CaptureDone(analyzed) ==
  /\ UNCHANGED CaptureStatic
  /\ \E t \in 1..Len(capture_tasks) :
       /\ capture_tasks[t] = "capture"
       /\ capture_tasks' = [capture_tasks EXCEPT ![t] = "select"]
  /\ record_count' = IF analyzed /\ record_count < MaxRecords
                     THEN record_count + 1 ELSE record_count
  /\ UNCHANGED <<is_running, stop_tx, stop_channels, g_calls>>

\* the stop branch of select! (lines 105-107): a message is there
CaptureStopReceived(t) ==
  /\ UNCHANGED CaptureStatic
  /\ capture_tasks[t] = "select"
  /\ stop_channels[t] = 1
  /\ stop_channels' = [stop_channels EXCEPT ![t] = 0]
  /\ capture_tasks' = [capture_tasks EXCEPT ![t] = "leave"]
  /\ UNCHANGED <<is_running, stop_tx, record_count, g_calls>>

\* after the loop (line 111): the flag is cleared and the task ends
CaptureExit(t) ==
  /\ UNCHANGED CaptureStatic
  /\ capture_tasks[t] = "leave"
  /\ is_running' = FALSE
  /\ capture_tasks' = [capture_tasks EXCEPT ![t] = "ended"]
  /\ UNCHANGED <<stop_tx, stop_channels, record_count, g_calls>>

InitCapture == InitParser

NextCapture ==
  \/ CaptureStart
  \/ CaptureStop
  \/ \E t \in 1..Len(capture_tasks) : CaptureTick(t)
  \/ \E analyzed \in BOOLEAN : CaptureDone(analyzed)
  \/ \E t \in 1..Len(capture_tasks) : CaptureStopReceived(t)
  \/ \E t \in 1..Len(capture_tasks) : CaptureExit(t)

SpecCapture == InitCapture /\ [][NextCapture]_vars

\* the latest call was a start() that spawned a loop, after a stop()
RestartedLast ==
  /\ Len(g_calls) >= 2
  /\ g_calls[Len(g_calls)] = "start"
  /\ g_calls[Len(g_calls) - 1] = "stop"

NewestLoopRuns == capture_tasks[Len(capture_tasks)] \in {"select", "capture"}

\* C39: after stop() and then start(), with no later stop(), the capture loop
\* keeps running and is_running stays true.
C39_RestartedLoopStaysOn == RestartedLast => (is_running /\ NewestLoopRuns)

\* what holds: the loop of the first start() is not switched off before a
\* stop()
C39_FirstLoopStaysOn == g_calls = <<"start">> => (is_running /\ NewestLoopRuns)

\* ---------------------------------------------------------------------------
\* Built-in skills and the commands that manage skills (skills/mod.rs lines
\* 40-82, 123-134, 519-554; commands/mod.rs lines 2171-2260)
\* ---------------------------------------------------------------------------

MaxManaged == 3

\* skills/mod.rs lines 46-80: the one built-in skill
BUILTIN_SKILLS ==
  <<[name |-> <<"s", "k", "i", "l", "l", "-", "c", "r", "e", "a", "t", "o", "r">>]>>

\* The SKILL.md shipped for a built-in skill (resources/skills/<name>/SKILL.md,
\* compiled in by include_str!): a sound definition that declares the name of
\* its directory, the skill the system prompt calls /skill-creator.
BuiltinSkillMd(skill) == DirEntry(skill.name, "dir", "SKILL.md", Some(skill.name), TRUE)

\* skills/mod.rs lines 527-554: nothing where a plain file has the name; the
\* directory made when absent; each file written unless it exists, so a
\* SKILL.md that is there is left as it is
ensure_builtin_skill(dir, skill) ==
  IF exists(dir, skill.name) /\ EntryOf(dir, skill.name).kind # "dir" THEN dir
  ELSE IF ~exists(dir, skill.name) THEN dir \cup {BuiltinSkillMd(skill)}
  ELSE IF EntryOf(dir, skill.name).md = "SKILL.md" THEN dir
  ELSE (dir \ {EntryOf(dir, skill.name)}) \cup {BuiltinSkillMd(skill)}

\* skills/mod.rs lines 519-525: every built-in skill in turn, errors only
\* printed
RECURSIVE ensure_builtin_skills_from(_, _)
ensure_builtin_skills_from(dir, i) ==
  IF i > Len(BUILTIN_SKILLS) THEN dir
  ELSE ensure_builtin_skills_from(ensure_builtin_skill(dir, BUILTIN_SKILLS[i]), i + 1)

ensure_builtin_skills(dir) == ensure_builtin_skills_from(dir, 1)

\* SkillManager::new (skills/mod.rs lines 123-134): the skills directory as the
\* constructor leaves it
SkillManager_new(dir) == ensure_builtin_skills(dir)

\* One skills command: it constructs a SkillManager, calls the operation on it
\* and, for create and delete, bumps the version when the operation succeeded.
SkillsCommand(op, name, done) ==
  /\ UNCHANGED <<ovars, gvars, tvars, rvars, hvars, cvars>>
  /\ UNCHANGED <<skills_cache, requests, qvars, tree, timer, frames, g_total_rounds,
                 g_loops_run, wvars, mvars>>
  /\ skill_args' = [op |-> op, name |-> name]
  /\ skill_ret' = done.ret
  /\ skills_dir' = done.dir
  /\ g_fs_calls' = done.calls
  /\ g_skills_before' = skills_dir
  /\ skills_version' = IF op \in {"create", "delete"} /\ done.ret.res = "Ok"
                       THEN fetch_add(skills_version, 1)
                       ELSE skills_version
  /\ g_deleted' = IF done.ret.res # "Ok" THEN g_deleted
                  ELSE IF op = "delete" THEN g_deleted \cup {name}
                  ELSE IF op = "create" THEN g_deleted \ {name}
                  ELSE g_deleted

\* A command that scans: list_skills (commands/mod.rs lines 2171-2175) and
\* chat_with_assistant (line 857) construct a SkillManager and have
\* get_available_skills_cached call discover_skills on it when the cache is
\* not fresh, as it is after every bump.
list_skills ==
  SkillsCommand("discover", <<>>,
                Done(SkillOk(discover_skills(SkillManager_new(skills_dir))),
                     SkillManager_new(skills_dir),
                     1 + Cardinality(SkillManager_new(skills_dir))))

\* commands/mod.rs lines 2178-2182
get_skill(name) ==
  SkillsCommand("load", name, load_skill(SkillManager_new(skills_dir), name))

\* commands/mod.rs lines 2240-2250
create_skill(name) ==
  /\ skills_version <= MaxManaged
  /\ SkillsCommand("create", name,
                   create_skill_with_meta(SkillManager_new(skills_dir), name))

\* commands/mod.rs lines 2253-2259
delete_skill_command(name) ==
  /\ skills_version <= MaxManaged
  /\ SkillsCommand("delete", name, delete_skill(SkillManager_new(skills_dir), name))

\* the names the commands are called with: the built-in skill, a skill of the
\* user, a name that is no skill name
ManagedNames == {BUILTIN_SKILLS[1].name, <<"a">>, <<"G">>}

\* what lies in the skills directory at the start: nothing (the first run), a
\* skill of the user, the built-in skill as shipped or edited by the user, a
\* built-in directory whose SKILL.md was removed, a plain file of its name
BuiltinDirCandidates ==
  {DirEntry(<<"a">>, "dir", "SKILL.md", Some(<<"a">>), TRUE),
   BuiltinSkillMd(BUILTIN_SKILLS[1]),
   DirEntry(BUILTIN_SKILLS[1].name, "dir", "SKILL.md", Some(<<"b">>), TRUE),
   DirEntry(BUILTIN_SKILLS[1].name, "dir", "none", {}, FALSE),
   DirEntry(BUILTIN_SKILLS[1].name, "file", "none", {}, FALSE)}

InitBuiltin ==
  /\ InitCommon
  /\ InitNoTool
  /\ InitNoHistory
  /\ g_keep_context = FALSE
  /\ pc = "idle"
  /\ provider = "api"
  /\ mode = "unset"
  /\ total_candidates = 1
  /\ token_registered = FALSE
  /\ result = NoResult
  /\ skills_dir \in {d \in SUBSET BuiltinDirCandidates :
                       \A e1, e2 \in d : e1.dir_name = e2.dir_name => e1 = e2}
  /\ skill_args = NoSkillArgs
  /\ skill_ret = NoSkillRet
  /\ g_fs_calls = 0
  /\ g_skills_before = {}
  /\ InitNoCache

NextBuiltin ==
  \/ list_skills
  \/ \E name \in ManagedNames : get_skill(name)
  \/ \E name \in ManagedNames : create_skill(name)
  \/ \E name \in ManagedNames : delete_skill_command(name)

SpecBuiltin == InitBuiltin /\ [][NextBuiltin]_vars

\* a scan or a load has just returned
Scanned == skill_args.op = "discover"
LoadedDeleted == skill_args.op = "load" /\ skill_args.name \in g_deleted

\* absent from the scan, and refused by load
AbsentFor(names) ==
  /\ Scanned => \A s \in skill_ret.value : s.name \notin names
  /\ (skill_args.op = "load" /\ skill_args.name \in names) => skill_ret.res = "Err"

\* C40 as stated: after delete(name) has succeeded, and until a create(name)
\* succeeds, no scan lists name and load(name) fails, for a built-in skill as
\* for any other and in every later command.
C40_DeletedStaysAbsent == AbsentFor(g_deleted)

\* what holds: a deleted skill that is not built in stays absent until it is
\* created again, and a deleted built-in skill is back in the directory as
\* soon as the next command has constructed its SkillManager
C40_OnlyBuiltinsComeBack ==
  /\ AbsentFor(g_deleted \ {BUILTIN_SKILLS[i].name : i \in DOMAIN BUILTIN_SKILLS})
  /\ \A name \in g_deleted :
       (exists(skills_dir, name) /\ skill_args # [op |-> "delete", name |-> name])
         => \E i \in DOMAIN BUILTIN_SKILLS : BUILTIN_SKILLS[i].name = name

\* the built-in skill was deleted and is listed or loaded again
BuiltinCameBack ==
  /\ BUILTIN_SKILLS[1].name \in g_deleted
  /\ \/ Scanned /\ \E s \in skill_ret.value : s.name = BUILTIN_SKILLS[1].name
     \/ LoadedDeleted /\ skill_ret.res = "Ok"

====
